---- MODULE Spec2Model ----
(***************************************************************************)
(* A model of github.com/pscheid92/uuid: the time-ordered (V7) generator   *)
(* with its batch and pooled variants, the hex codec and the strict and    *)
(* lenient parsers.                                                        *)
(*                                                                         *)
(* A UUID is a sequence of 16 bytes; Go's u[i] is u[i+1] here.  A string   *)
(* is a sequence of byte codes, Go's s[i] is s[i+1].                       *)
(***************************************************************************)
EXTENDS Integers, Sequences, FiniteSets, TLC

VARIABLES
    lastSeq,    \* Generator.lastSeq
    issued,     \* every UUID the Generator has returned, in return order
    lastCall,   \* what the last call on the Generator was, was given and returned
    clock,      \* the reading of the clock, where the caller controls it
    count,      \* the calls made while the clock stands still
    trail,      \* the last two UUIDs returned while the clock stands still
    mu,         \* Generator.mu: 0 when free, else the goroutine holding it
    pc,         \* where each goroutine stands in its call
    loc,        \* each goroutine's local variables seq and u[8:]
    started,    \* the calls goroutines have started
    stored,     \* the values written to lastSeq, in the order of the writes
    returned,   \* the UUIDs concurrent calls have returned, in return order
    v7rand,     \* Pool.v7rand: poolSize chunks of 8 random bytes
    v7pos,      \* Pool.v7pos: the next chunk to hand out
    v7seq,      \* Pool.v7seq
    poolCalls,  \* the Pool.NewV7 calls made
    poolTrail,  \* the last two UUIDs Pool.NewV7 returned
    val,        \* the UUID value handed to String
    text,       \* what String returned
    input,      \* the string handed to Parse or ParseLenient
    res,        \* what the last Parse or ParseLenient call returned
    payload,    \* 32 hex digits written in each of the four forms
    got,        \* what the parsers returned for each form of payload
    recv,       \* the UUID a method is called on
    recv0,      \* what the receiver held before the call
    data,       \* the argument of the call: its kind and its bytes
    ret,        \* what the call returned
    raw,        \* the bytes a generation function starts from
    made,       \* what the generation function returned
    v4buf,      \* Pool.v4buf: poolSize stamped UUIDs
    v4pos,      \* Pool.v4pos: the next one to hand out
    pre,        \* the precomputed hash states md5DNS .. sha1X500
    hpc,        \* where each goroutine stands in its hashUUID call
    hloc,       \* each goroutine's arguments and its hash h
    hret,       \* what the hashUUID calls have returned
    abc,        \* three UUIDs handed to Compare in pairs
    cmpRes,     \* what Compare returned for each pair
    gens,       \* the Generators on the heap: each one's lastSeq
    isoCall,    \* the last call made on one of several instances
    seqs,       \* two 60-bit sequence values, each in two 30-bit halves
    enc,        \* the UUIDs encoded from them and the times read back
    slept,      \* the whole milliseconds the caller slept between its two calls
    pmu,        \* Pool.mu: 0 when free, else the caller holding it
    lpc,        \* where each caller of the locked operations stands in its call
    lloc,       \* each such caller's local variables
    log         \* what the callers did to the shared state, in the order they did it

genVars == <<lastSeq, issued, lastCall>>

frozenVars == <<clock, count, trail>>

concVars == <<mu, pc, loc, started, stored, returned>>

poolVars == <<v7rand, v7pos, v7seq, poolCalls, poolTrail>>

parseVars == <<val, text, input, res, payload, got>>

wireVars == <<recv, recv0, data, ret>>

stampVars == <<raw, made, v4buf, v4pos>>

hashVars == <<pre, hpc, hloc, hret>>

cmpVars == <<abc, cmpRes>>

isoVars == <<gens, isoCall>>

encVars == <<seqs, enc>>

advVars == <<slept>>

lockVars == <<pmu, lpc, lloc, log>>

moreVars == <<isoVars, encVars, advVars, lockVars>>

extVars == <<wireVars, stampVars, hashVars, cmpVars, moreVars>>

vars == <<lastSeq, issued, lastCall, clock, count, trail,
          mu, pc, loc, started, stored, returned,
          v7rand, v7pos, v7seq, poolCalls, poolTrail,
          val, text, input, res, payload, got,
          recv, recv0, data, ret, raw, made, v4buf, v4pos, pre, hpc, hloc, hret, abc, cmpRes, gens, isoCall, seqs, enc, slept, pmu, lpc, lloc, log>>

----------------------------------------------------------------------------
(* Bounds of the model.                                                    *)

\* The Generator returns at most this many UUIDs in one behaviour.
MaxIssued == 3

\* NewV7Batch is called with n in 0..MaxBatch.
MaxBatch == 2

\* With the clock standing still NewV7 is called at most this many times:
\* more than the 4096 values of the 12-bit field.
MaxFrozenCalls == 4100

\* Pool.NewV4 is called at most this many times on one Pool: past the
\* refill after the first poolSize UUIDs.
MaxPoolV4Calls == 258

\* The goroutines that call one Generator concurrently.
NumGoroutines == 2

\* The concurrent calls started in one behaviour.
MaxConcCalls == 3

\* Pool.NewV7 is called at most this many times: past the first refill of
\* the 256 chunks and into the second.
MaxPoolCalls == 258

\* The calls made on several Generators and a Pool in one behaviour.
MaxIsoCalls == 3

\* The caller sleeps at most this many milliseconds between two calls, or
\* the 100 milliseconds of the test.
MaxSleepMs == 3

----------------------------------------------------------------------------
(* Integer and bit arithmetic of Go, on mathematical integers.  Every      *)
(* value of the model stays far inside int64, so no operation wraps.       *)

\* Go's x / y for y > 0: the quotient truncated toward zero.
GoDiv(x, y) == IF x >= 0 THEN x \div y ELSE -((-x) \div y)

\* Go's x % y for y > 0: the remainder has the sign of x.
GoMod(x, y) == x - y * GoDiv(x, y)

RECURSIVE AndNat(_, _)
\* a & b for a, b >= 0.
AndNat(a, b) ==
    IF a = 0 \/ b = 0 THEN 0
    ELSE (a % 2) * (b % 2) + 2 * AndNat(a \div 2, b \div 2)

RECURSIVE OrNat(_, _)
\* a | b for a, b >= 0.
OrNat(a, b) ==
    IF a = 0 THEN b
    ELSE IF b = 0 THEN a
    ELSE (IF a % 2 = 1 \/ b % 2 = 1 THEN 1 ELSE 0) + 2 * OrNat(a \div 2, b \div 2)

RECURSIVE AndNotNat(_, _)
\* a &^ b for a, b >= 0.
AndNotNat(a, b) ==
    IF a = 0 THEN 0
    ELSE (IF a % 2 = 1 /\ b % 2 = 0 THEN 1 ELSE 0) + 2 * AndNotNat(a \div 2, b \div 2)

\* a | b on two's complement integers of either sign (^x = -x-1).
BitOr(a, b) ==
    IF a >= 0 /\ b >= 0 THEN OrNat(a, b)
    ELSE IF a < 0 /\ b < 0 THEN -(AndNat(-a - 1, -b - 1)) - 1
    ELSE IF a < 0 THEN -(AndNotNat(-a - 1, b)) - 1
    ELSE -(AndNotNat(-b - 1, a)) - 1

\* a & b for a >= 0 or b >= 0 of the model: both operands are non-negative
\* wherever the code masks.
BitAnd(a, b) == AndNat(a, b)

\* x >> n, the arithmetic shift of a signed integer: the floor of x / 2^n.
\* Every value of the model is below 2^31 in magnitude, so a shift by 31 or
\* more leaves only the sign.
Shr(x, n) == IF n >= 31 THEN (IF x >= 0 THEN 0 ELSE -1) ELSE x \div (2 ^ n)

\* x << n.
Shl(x, n) == x * (2 ^ n)

\* byte(x): the low 8 bits.
Byte(x) == x % 256

----------------------------------------------------------------------------
(* type UUID [16]byte, Compare.                                            *)

Bytes == 0..255

UUIDSize == 16

\* var u UUID
ZeroUUID == [i \in 1..UUIDSize |-> 0]

RECURSIVE CompareFrom(_, _, _)
CompareFrom(a, b, i) ==
    IF i > Len(a) /\ i > Len(b) THEN 0
    ELSE IF i > Len(a) THEN -1
    ELSE IF i > Len(b) THEN 1
    ELSE IF a[i] < b[i] THEN -1
    ELSE IF a[i] > b[i] THEN 1
    ELSE CompareFrom(a, b, i + 1)

\* Compare looking at the timestamp bytes 0-5 only.
CompareHead(a, b) == CompareFrom(SubSeq(a, 1, 6), SubSeq(b, 1, 6), 1)

\* cmp.Compare(string(a[:]), string(b[:])): byte-lexicographic order.
Compare(a, b) == CompareFrom(a, b, 1)

----------------------------------------------------------------------------
(* The external collaborators: the wall clock and the random source.       *)

\* time.Now().UnixNano(): the readings the clock may give, in any order.
\* A reading before the epoch, the epoch itself, the last nanosecond of the
\* first sub-millisecond slot, the first of the second slot, the last
\* nanosecond of millisecond 0 (fraction 4095), millisecond 1, and the last
\* nanosecond of millisecond 255 (its successor carries into byte 4).
ClockReadings == {-1500000, 0, 244, 245, 999999, 1000000, 255999999}

\* rand.Read of 8 bytes: the tails the random source may deliver.
RandTails == {[i \in 1..8 |-> 0], [i \in 1..8 |-> 255]}

----------------------------------------------------------------------------
(* Generator (src/generate.go).                                            *)

nanoPerMilli == 1000000

\* x * m / d as Go computes it in int64.  m and d share the factor 16, which
\* is cancelled before multiplying so that the product stays inside the
\* integers of the model checker; the truncated quotient is the same.
MulDiv(x, m, d) == GoDiv(x * (m \div 16), d \div 16)

\* The candidate without the fraction: seq := ms<<12.
CandidateNoFrac(nano) == Shl(GoDiv(nano, nanoPerMilli), 12)

\* ms := nano / nanoPerMilli
\* frac := (nano % nanoPerMilli) * 4096 / nanoPerMilli
\* seq := ms<<12 | frac
Candidate(nano) ==
    LET ms   == GoDiv(nano, nanoPerMilli)
        frac == MulDiv(GoMod(nano, nanoPerMilli), 4096, nanoPerMilli)
    IN  BitOr(Shl(ms, 12), frac)

\* The bump with < in place of <=: an equal candidate is let through.
BumpStrict(seq, last) == IF seq < last THEN last + 1 ELSE seq

\* The bump by a whole millisecond: the timestamp moves at every collision.
BumpMillisecond(seq, last) == IF seq <= last THEN last + 4096 ELSE seq

\* if seq <= g.lastSeq { seq = g.lastSeq + 1 }
Bump(seq, last) == IF seq <= last THEN last + 1 ELSE seq

\* The encoding that leaves the high four bits of seq12 out of byte 6.
EncodeV7DropsNibble(seq, tail) ==
    LET ms    == Shr(seq, 12)
        seq12 == BitAnd(seq, 4095)
    IN  [i \in 1..UUIDSize |->
            CASE i = 1 -> Byte(Shr(ms, 40))
              [] i = 2 -> Byte(Shr(ms, 32))
              [] i = 3 -> Byte(Shr(ms, 24))
              [] i = 4 -> Byte(Shr(ms, 16))
              [] i = 5 -> Byte(Shr(ms, 8))
              [] i = 6 -> Byte(ms)
              [] i = 7 -> 112
              [] i = 8 -> Byte(seq12)
              [] i = 9 -> BitOr(BitAnd(tail[1], 63), 128)
              [] OTHER -> tail[i - 8]]

\* Generator.NewV7, after the critical section: ms = seq >> 12,
\* seq12 := seq & 0xFFF, bytes 0-7 written, the variant laid over byte 8.
\* u holds the random tail in bytes 8-15 already.
EncodeV7(seq, tail) ==
    LET ms    == Shr(seq, 12)
        seq12 == BitAnd(seq, 4095)
    IN  [i \in 1..UUIDSize |->
            CASE i = 1 -> Byte(Shr(ms, 40))
              [] i = 2 -> Byte(Shr(ms, 32))
              [] i = 3 -> Byte(Shr(ms, 24))
              [] i = 4 -> Byte(Shr(ms, 16))
              [] i = 5 -> Byte(Shr(ms, 8))
              [] i = 6 -> Byte(ms)
              [] i = 7 -> BitOr(112, BitAnd(Byte(Shr(seq12, 8)), 15))
              [] i = 8 -> Byte(seq12)
              [] i = 9 -> BitOr(BitAnd(tail[1], 63), 128)
              [] OTHER -> tail[i - 8]]

\* The loop body of Generator.NewV7Batch for index i (0-based): s := seq +
\* int64(i), msI := s >> 12, seq12 := s & 0xFFF, the copy of the i-th random
\* chunk and the same byte layout.
EncodeBatchItem(seq, i, randBuf) ==
    LET s     == seq + i
        msI   == Shr(s, 12)
        seq12 == BitAnd(s, 4095)
    IN  [j \in 1..UUIDSize |->
            CASE j = 1 -> Byte(Shr(msI, 40))
              [] j = 2 -> Byte(Shr(msI, 32))
              [] j = 3 -> Byte(Shr(msI, 24))
              [] j = 4 -> Byte(Shr(msI, 16))
              [] j = 5 -> Byte(Shr(msI, 8))
              [] j = 6 -> Byte(msI)
              [] j = 7 -> BitOr(112, BitAnd(Byte(Shr(seq12, 8)), 15))
              [] j = 8 -> Byte(seq12)
              [] j = 9 -> BitOr(BitAnd(randBuf[i * 8 + 1], 63), 128)
              [] OTHER -> randBuf[i * 8 + (j - 8)]]

\* The batch storing seq + n: one sequence value is skipped.
BatchLastSeqSkips(seq, n) == seq + n

\* g.lastSeq = seq + int64(n-1)
BatchLastSeq(seq, n) == seq + (n - 1)

\* The random buffer of a batch: n chunks of 8 bytes laid end to end.
RECURSIVE Flatten(_)
Flatten(chunks) ==
    IF chunks = <<>> THEN <<>> ELSE Head(chunks) \o Flatten(Tail(chunks))

NoCall == [op |-> "none", n |-> 0, nano |-> 0, before |-> 0, out |-> <<>>]

\* NewGenerator: &Generator{}.
GenInit ==
    /\ lastSeq = 0
    /\ issued = <<>>
    /\ lastCall = NoCall

poolSize == 256

\* NewPool: &Pool{v7pos: poolSize}; the buffer and v7seq are zero.
NewPool ==
    /\ v7rand = [i \in 1..(poolSize * 8) |-> 0]
    /\ v7pos = poolSize
    /\ v7seq = 0
    /\ poolCalls = 0
    /\ poolTrail = <<>>

\* What a parser returns: the UUID and the error, which is nil or a
\* *ParseError{Input: s, Msg: msg}.  op names the function called.
Result(op, s, ok, u, msg) ==
    [op |-> op, ok |-> ok, u |-> u,
     err |-> IF ok THEN "nil" ELSE "ParseError",
     Input |-> IF ok THEN <<>> ELSE s, msg |-> msg]

NoRes == Result("none", <<>>, FALSE, ZeroUUID, "")

\* The forms a payload is written in, and Parse on the standard form.
Forms == {"strict", "standard", "urn", "braced", "compact"}

\* No string has been formatted or parsed.
ParseIdle ==
    /\ val = ZeroUUID
    /\ text = <<>>
    /\ input = <<>>
    /\ res = NoRes
    /\ payload = <<>>
    /\ got = [f \in Forms |-> NoRes]

\* var NamespaceDNS, NamespaceURL, NamespaceOID, NamespaceX500: the values
\* 6ba7b810-, 6ba7b811-, 6ba7b812- and 6ba7b814-9dad-11d1-80b4-00c04fd430c8.
NamespaceDNS ==
    <<107, 167, 184, 16, 157, 173, 17, 209, 128, 180, 0, 192, 79, 212, 48, 200>>

NamespaceURL == [NamespaceDNS EXCEPT ![4] = 17]

NamespaceOID == [NamespaceDNS EXCEPT ![4] = 18]

NamespaceX500 == [NamespaceDNS EXCEPT ![4] = 20]

\* No pointer-receiver method has been called.
NoData == [kind |-> "none", bytes |-> <<>>]

NoRet == [op |-> "none", err |-> "nil", Input |-> <<>>, msg |-> "", Got |-> 0, out |-> <<>>]

WireIdle ==
    /\ recv = ZeroUUID
    /\ recv0 = ZeroUUID
    /\ data = NoData
    /\ ret = NoRet

\* No generation function has been called.
NoMade == [op |-> "none", n |-> 0, arg |-> <<>>, out |-> <<>>]

\* No generation function has been called; NewPool: &Pool{v4pos: poolSize},
\* the buffer is zero.
StampIdle ==
    /\ raw = <<>>
    /\ made = NoMade
    /\ v4buf = [i \in 1..poolSize |-> ZeroUUID]
    /\ v4pos = poolSize

\* No two UUIDs have been compared.
CmpIdle ==
    /\ abc = <<>>
    /\ cmpRes = <<>>

Goroutines == 1..NumGoroutines

\* No goroutine is in a call and the mutex is free.
ConcIdle ==
    /\ mu = 0
    /\ pc = [p \in Goroutines |-> "idle"]
    /\ loc = [p \in Goroutines |-> [seq |-> 0, tail |-> <<>>]]
    /\ started = 0
    /\ stored = <<>>
    /\ returned = <<>>

\* No frozen clock is in use.
FrozenIdle ==
    /\ clock = 0
    /\ count = 0
    /\ trail = <<>>

\* A hash.Hash: the algorithm and the bytes written to it so far.
\* md5.New() and sha1.New() return one that nothing was written to.
newHash(alg) == [alg |-> alg, absorbed |-> <<>>]

\* h.Write(b)
Write(h, b) == [h EXCEPT !.absorbed = @ \o b]

\* func initHash(h hash.Hash, ns UUID) hash.Cloner: h.Write(ns[:])
initHash(h, ns) == Write(h, ns)

\* func init(): the eight package variables.
InitHashes ==
    [md5DNS   |-> initHash(newHash("md5"), NamespaceDNS),
     md5URL   |-> initHash(newHash("md5"), NamespaceURL),
     md5OID   |-> initHash(newHash("md5"), NamespaceOID),
     md5X500  |-> initHash(newHash("md5"), NamespaceX500),
     sha1DNS  |-> initHash(newHash("sha1"), NamespaceDNS),
     sha1URL  |-> initHash(newHash("sha1"), NamespaceURL),
     sha1OID  |-> initHash(newHash("sha1"), NamespaceOID),
     sha1X500 |-> initHash(newHash("sha1"), NamespaceX500)]

\* A goroutine outside hashUUID: h refers to no hash.
NoHashCall ==
    [namespace |-> ZeroUUID, name |-> <<>>, ver |-> 0,
     h |-> "nil", own |-> newHash("none")]

\* The goroutines that call NewV3 and NewV5.
HashGoroutines == {"g1", "g2"}

\* The package is initialised and no goroutine is in hashUUID.
HashIdle ==
    /\ pre = InitHashes
    /\ hpc = [p \in HashGoroutines |-> "idle"]
    /\ hloc = [p \in HashGoroutines |-> NoHashCall]
    /\ hret = <<>>

\* The Generators of the program: the package variable defaultGen and the
\* ones the caller made with NewGenerator.
GenNames == {"defaultGen", "gen1", "gen2"}

\* No call on several instances has been made.
NoIsoCall == [op |-> "none", who |-> "none", n |-> 0, nano |-> 0,
              before |-> <<>>, pool |-> 0, out |-> <<>>, k |-> 0]

\* var defaultGen = NewGenerator() and every NewGenerator(): &Generator{}.
IsoIdle ==
    /\ gens = [g \in GenNames |-> 0]
    /\ isoCall = NoIsoCall

\* No sequence value has been encoded.
EncIdle ==
    /\ seqs = <<>>
    /\ enc = <<>>

\* The caller has not slept.
AdvIdle == slept = 0

\* The goroutines that call one Generator and one Pool at the same time,
\* one call each.
LockCallers == {1, 2}

\* The locals of a caller that has not called yet.
NoLocals == [op |-> "none", n |-> 0, nano |-> 0, cand |-> 0, seq |-> 0, prev |-> 0,
             tail |-> <<>>, u |-> <<>>, out |-> <<>>]

\* Nothing has been done to the shared state.
NoLog == [touch |-> [c |-> 0, inst |-> "none", holder |-> 0],
          reads |-> <<>>, entries |-> <<>>, stores |-> <<>>, checks |-> <<>>,
          hands |-> <<>>, rets |-> <<>>, fills |-> [v4 |-> 0, v7 |-> 0]]

\* The Pool's mutex is free and no caller is in a call.
LockIdle ==
    /\ pmu = 0
    /\ lpc = [c \in LockCallers |-> "idle"]
    /\ lloc = [c \in LockCallers |-> NoLocals]
    /\ log = NoLog

MoreIdle == IsoIdle /\ EncIdle /\ AdvIdle /\ LockIdle

ExtIdle == WireIdle /\ StampIdle /\ HashIdle /\ CmpIdle /\ MoreIdle

\* func (g *Generator) NewV7() UUID, run from call to return with the clock
\* reading nano and the random tail it drew.
NewV7(nano, tail) ==
    LET seq == Bump(Candidate(nano), lastSeq)
        u   == EncodeV7(seq, tail)
    IN  /\ Len(issued) + 1 <= MaxIssued
        /\ lastSeq' = seq
        /\ issued' = Append(issued, u)
        /\ lastCall' = [op |-> "NewV7", n |-> 1, nano |-> nano,
                        before |-> lastSeq, out |-> <<u>>]
        /\ UNCHANGED <<frozenVars, concVars, poolVars, parseVars, extVars>>

\* func (g *Generator) NewV7Batch(n int) []UUID, run from call to return.
NewV7Batch(n, nano, chunks) ==
    LET randBuf == Flatten(chunks)
        seq     == Bump(Candidate(nano), lastSeq)
        uuids   == [i \in 1..n |-> EncodeBatchItem(seq, i - 1, randBuf)]
    IN  /\ Len(issued) + n <= MaxIssued
        /\ lastSeq' = BatchLastSeq(seq, n)
        /\ issued' = issued \o uuids
        /\ lastCall' = [op |-> "NewV7Batch", n |-> n, nano |-> nano,
                        before |-> lastSeq, out |-> uuids]
        /\ UNCHANGED <<frozenVars, concVars, poolVars, parseVars, extVars>>

Init == GenInit /\ FrozenIdle /\ ConcIdle /\ NewPool /\ ParseIdle /\ ExtIdle

Next ==
    \/ \E nano \in ClockReadings, tail \in RandTails : NewV7(nano, tail)
    \/ \E n \in 0..MaxBatch, nano \in ClockReadings :
          \E chunks \in [1..n -> RandTails] : NewV7Batch(n, nano, chunks)

\* One Generator used by one caller: calls run one after another, each with
\* any clock reading.
Spec == Init /\ [][Next]_vars

----------------------------------------------------------------------------
(* One Generator under a clock that never advances.                        *)

FrozenInit ==
    /\ GenInit
    /\ ConcIdle
    /\ NewPool
    /\ ParseIdle
    /\ ExtIdle
    /\ clock \in ClockReadings
    /\ count = 0
    /\ trail = <<>>

\* Generator.NewV7 with time.Now() giving the same reading at every call.
\* Only the last two results are kept, so that thousands of calls fit.
NewV7Frozen(tail) ==
    LET seq == Bump(Candidate(clock), lastSeq)
        u   == EncodeV7(seq, tail)
    IN  /\ count < MaxFrozenCalls
        /\ lastSeq' = seq
        /\ lastCall' = [op |-> "NewV7", n |-> 1, nano |-> clock,
                        before |-> lastSeq, out |-> <<u>>]
        /\ count' = count + 1
        /\ trail' = IF trail = <<>> THEN <<u>> ELSE <<trail[Len(trail)], u>>
        /\ UNCHANGED <<issued, clock, concVars, poolVars, parseVars, extVars>>

FrozenNext == \E tail \in RandTails : NewV7Frozen(tail)

SpecFrozen == FrozenInit /\ [][FrozenNext]_vars

----------------------------------------------------------------------------
(* One Generator called by several goroutines: Generator.NewV7 statement   *)
(* by statement (src/generate.go lines 255-290).                           *)

\* The clock readings of the concurrent calls: each call may read any of
\* them, so a call that read a later time may enter the critical section
\* before one that read an earlier time.
ConcReadings == {0, 999999, 1000000}

\* sync.Mutex.Lock returns only when no goroutine holds the mutex.
\* Without exclusion: Lock returns at once.
LockNeverWaits(p) == TRUE

MutexFree(p) == mu = 0

\* Lines 256-264: var u UUID; rand.Read(u[8:]); now := time.Now(); ...;
\* seq := ms<<12 | frac.  Only locals are written.
GoReadClock(p, nano, tail) ==
    /\ pc[p] = "idle"
    /\ started < MaxConcCalls
    /\ started' = started + 1
    /\ loc' = [loc EXCEPT ![p] = [seq |-> Candidate(nano), tail |-> tail]]
    /\ pc' = [pc EXCEPT ![p] = "lock"]
    /\ UNCHANGED <<mu, stored, returned, genVars, frozenVars, poolVars, parseVars, extVars>>

\* Line 266: g.mu.Lock().
GoLock(p) ==
    /\ pc[p] = "lock"
    /\ MutexFree(p)
    /\ mu' = p
    /\ pc' = [pc EXCEPT ![p] = "bump"]
    /\ UNCHANGED <<loc, started, stored, returned, genVars, frozenVars, poolVars, parseVars, extVars>>

\* Lines 267-269: if seq <= g.lastSeq { seq = g.lastSeq + 1 }.
GoBump(p) ==
    /\ pc[p] = "bump"
    /\ loc' = [loc EXCEPT ![p].seq = Bump(loc[p].seq, lastSeq)]
    /\ pc' = [pc EXCEPT ![p] = "store"]
    /\ UNCHANGED <<mu, started, stored, returned, genVars, frozenVars, poolVars, parseVars, extVars>>

\* Line 270: g.lastSeq = seq.
GoStore(p) ==
    /\ pc[p] = "store"
    /\ lastSeq' = loc[p].seq
    /\ stored' = Append(stored, loc[p].seq)
    /\ pc' = [pc EXCEPT ![p] = "unlock"]
    /\ UNCHANGED <<mu, loc, started, returned, issued, lastCall, frozenVars, poolVars, parseVars, extVars>>

\* Line 271: g.mu.Unlock().
GoUnlock(p) ==
    /\ pc[p] = "unlock"
    /\ mu' = 0
    /\ pc' = [pc EXCEPT ![p] = "encode"]
    /\ UNCHANGED <<loc, started, stored, returned, genVars, frozenVars, poolVars, parseVars, extVars>>

\* Lines 273-289: the bytes are written from the local seq and u is returned.
GoReturn(p) ==
    /\ pc[p] = "encode"
    /\ returned' = Append(returned, EncodeV7(loc[p].seq, loc[p].tail))
    /\ pc' = [pc EXCEPT ![p] = "idle"]
    /\ UNCHANGED <<mu, loc, started, stored, genVars, frozenVars, poolVars, parseVars, extVars>>

ConcInit == GenInit /\ FrozenIdle /\ ConcIdle /\ NewPool /\ ParseIdle /\ ExtIdle

ConcNext ==
    \E p \in Goroutines :
        \/ \E nano \in ConcReadings, tail \in RandTails : GoReadClock(p, nano, tail)
        \/ GoLock(p)
        \/ GoBump(p)
        \/ GoStore(p)
        \/ GoUnlock(p)
        \/ GoReturn(p)

SpecConc == ConcInit /\ [][ConcNext]_vars

----------------------------------------------------------------------------
(* Pool (src/generate.go), the time-ordered half.                          *)

\* What rand.Read(p.v7rand[:]) may deliver in refillV7: two fills whose
\* bytes tell the chunks apart.
PoolFills ==
    {[i \in 1..(poolSize * 8) |-> (i - 1) % 256],
     [i \in 1..(poolSize * 8) |-> 255 - ((i - 1) % 256)]}

\* Pool.NewV7: nano := now.UnixNano(); ms := nano / nanoPerMilli;
\* frac := (nano % nanoPerMilli) * 4096 / nanoPerMilli; seq := ms<<12 | frac
PoolCandidate(nano) ==
    LET ms   == GoDiv(nano, nanoPerMilli)
        frac == MulDiv(GoMod(nano, nanoPerMilli), 4096, nanoPerMilli)
    IN  BitOr(Shl(ms, 12), frac)

\* The pool's bump with < in place of <=.
PoolBumpStrict(seq, last) == IF seq < last THEN last + 1 ELSE seq

\* if seq <= p.v7seq { seq = p.v7seq + 1 }
PoolBump(seq, last) == IF seq <= last THEN last + 1 ELSE seq

\* Pool.NewV7 after the critical section: u holds the chunk in bytes 8-15.
EncodePoolV7(seq, chunk) ==
    LET ms    == Shr(seq, 12)
        seq12 == BitAnd(seq, 4095)
    IN  [i \in 1..UUIDSize |->
            CASE i = 1 -> Byte(Shr(ms, 40))
              [] i = 2 -> Byte(Shr(ms, 32))
              [] i = 3 -> Byte(Shr(ms, 24))
              [] i = 4 -> Byte(Shr(ms, 16))
              [] i = 5 -> Byte(Shr(ms, 8))
              [] i = 6 -> Byte(ms)
              [] i = 7 -> BitOr(112, BitAnd(Byte(Shr(seq12, 8)), 15))
              [] i = 8 -> Byte(seq12)
              [] i = 9 -> BitOr(BitAnd(chunk[1], 63), 128)
              [] OTHER -> chunk[i - 8]]

\* func (p *Pool) NewV7() UUID, run from call to return: the refill when the
\* cursor is at the end, the chunk copied out, the cursor advanced, the
\* clock read, the bump, the store and the encoding.
PoolNewV7(nano, fill) ==
    LET refill == v7pos >= poolSize
        rnd    == IF refill THEN fill ELSE v7rand
        pos    == IF refill THEN 0 ELSE v7pos
        off    == pos * 8
        chunk  == SubSeq(rnd, off + 1, off + 8)
        seq    == PoolBump(PoolCandidate(nano), v7seq)
        u      == EncodePoolV7(seq, chunk)
    IN  /\ poolCalls < MaxPoolCalls
        /\ v7rand' = rnd
        /\ v7pos' = pos + 1
        /\ v7seq' = seq
        /\ poolCalls' = poolCalls + 1
        /\ poolTrail' = IF poolTrail = <<>> THEN <<u>>
                        ELSE <<poolTrail[Len(poolTrail)], u>>

\* Generator.NewV7 run from call to return beside the pool.  Only its latest
\* result is kept in issued, so that hundreds of calls fit.
NewV7Beside(nano, tail) ==
    LET seq == Bump(Candidate(nano), lastSeq)
        u   == EncodeV7(seq, tail)
    IN  /\ lastSeq' = seq
        /\ issued' = <<u>>
        /\ UNCHANGED lastCall

\* The clock readings given to the Pool and to the Generator beside it: the
\* last slot of millisecond 0, millisecond 1, and a reading far ahead.
PoolReadings == {999999, 1000000, 255999999}

\* A new Pool and a new Generator are fed the same clock reading, call by
\* call.
PoolAndGenerator(nano, fill, tail) ==
    /\ PoolNewV7(nano, fill)
    /\ NewV7Beside(nano, tail)
    /\ UNCHANGED <<frozenVars, concVars, parseVars, extVars>>

PoolInit == GenInit /\ FrozenIdle /\ ConcIdle /\ NewPool /\ ParseIdle /\ ExtIdle

\* The random source is read by the Pool only when it refills; the
\* Generator beside it draws one tail, which bytes 0-7 do not depend on.
PoolNext ==
    \E nano \in PoolReadings :
        \E fill \in (IF v7pos >= poolSize THEN PoolFills ELSE {v7rand}) :
            PoolAndGenerator(nano, fill, [i \in 1..8 |-> 0])

SpecPool == PoolInit /\ [][PoolNext]_vars

----------------------------------------------------------------------------
(* Reading a time-ordered UUID back, as the claims speak of it.            *)

\* The 48-bit big-endian number in bytes 0-5.
MsOf(u) == ((((u[1] * 256 + u[2]) * 256 + u[3]) * 256 + u[4]) * 256 + u[5]) * 256 + u[6]

\* The 12-bit field: the low nibble of byte 6 followed by byte 7.
Seq12Of(u) == (u[7] % 16) * 256 + u[8]

\* The 60-bit sequence value a time-ordered UUID carries.
SeqOf(u) == MsOf(u) * 4096 + Seq12Of(u)

\* Bytes 0-7.
Head8(u) == SubSeq(u, 1, 8)

----------------------------------------------------------------------------
(* C1.  For one Generator and any sequence of NewV7 and NewV7Batch calls   *)
(* made one after another, under any clock readings, every returned UUID   *)
(* is strictly greater under Compare than every UUID returned earlier.     *)
C1_StrictlyIncreasing ==
    \A i, j \in 1..Len(issued) :
        i < j => /\ Compare(issued[j], issued[i]) = 1
                 /\ Compare(issued[i], issued[j]) = -1

\* A batch of two that follows an earlier call and was given a clock reading
\* not ahead of the Generator: its first UUID comes from the bump.
C1_Witness ==
    /\ lastCall.op = "NewV7Batch"
    /\ lastCall.n = 2
    /\ Len(issued) = 3
    /\ Candidate(lastCall.nano) <= lastCall.before

----------------------------------------------------------------------------
(* C2.  For any interleaving of concurrent NewV7 calls on one Generator,   *)
(* no two calls return the same UUID: the sequence values they store are   *)
(* pairwise distinct and strictly increasing in the order in which the     *)
(* calls pass through the critical section.                                *)
C2_ConcurrentDistinct ==
    /\ \A i, j \in 1..Len(stored) : i < j => stored[i] < stored[j]
    /\ \A i, j \in 1..Len(returned) : i /= j => returned[i] /= returned[j]
    /\ \A i \in 1..Len(returned) :
           \E j \in 1..Len(stored) : SeqOf(returned[i]) = stored[j]

\* Two calls overlapped: the one that passed the critical section second
\* returned first, and both drew the same random tail, so that only the
\* stored sequence values tell their results apart.
C2_Witness ==
    /\ Len(returned) = 2
    /\ Len(stored) >= 2
    /\ SeqOf(returned[1]) = stored[2]
    /\ SeqOf(returned[2]) = stored[1]
    /\ returned[1][9] = returned[2][9]

----------------------------------------------------------------------------
(* C3.  With a clock that never advances and reads millisecond m and       *)
(* fraction f, the k-th NewV7 call on a fresh Generator emits the sequence *)
(* value m*4096 + f + k.                                                   *)

\* The claim as stated, for readings at or after the epoch.
C3_Original ==
    (count >= 1 /\ clock >= 0) =>
        LET m == clock \div nanoPerMilli
            f == ((clock % nanoPerMilli) * 256) \div 62500
        IN  SeqOf(trail[Len(trail)]) = m * 4096 + f + (count - 1)

\* As amended: the k-th call emits max(c, 1) + k for the candidate c of the
\* reading, which is m*4096 + f + k unless c < 1 (a reading before the end
\* of the first sub-millisecond slot of the epoch).  While f + k <= 4095 the
\* output keeps millisecond m; at f + k = 4096 it carries millisecond m + 1
\* and a 12-bit field of 0; each output is greater than the one before it.
C3_FrozenSequence ==
    count >= 1 =>
        LET c   == Candidate(clock)
            k   == count - 1
            s   == (IF c >= 1 THEN c ELSE 1) + k
            cur == trail[Len(trail)]
            m   == clock \div nanoPerMilli
            f   == ((clock % nanoPerMilli) * 256) \div 62500
        IN  /\ SeqOf(cur) = s
            /\ lastSeq = s
            /\ (clock >= 0 /\ c >= 1) => s = m * 4096 + f + k
            /\ (clock >= 0 /\ c >= 1 /\ f + k <= 4095) =>
                   MsOf(cur) = m /\ Seq12Of(cur) = f + k
            /\ (clock >= 0 /\ c >= 1 /\ f + k = 4096) =>
                   MsOf(cur) = m + 1 /\ Seq12Of(cur) = 0
            /\ Len(trail) = 2 =>
                   /\ Compare(trail[1], trail[2]) = -1
                   /\ SeqOf(trail[2]) = SeqOf(trail[1]) + 1

\* More than 4096 calls were made from a reading with a non-zero fraction,
\* and the output has carried into the next millisecond.
C3_Witness ==
    /\ count > 4096
    /\ clock = 245
    /\ MsOf(trail[Len(trail)]) = 1
    /\ Compare(trail[1], trail[2]) = -1

----------------------------------------------------------------------------
(* C4.  For every n >= 1, every lastSeq and one clock reading,             *)
(* NewV7Batch(n) returns UUIDs whose bytes 0-7 are those of n successive   *)
(* NewV7 calls made from the same lastSeq with the clock held at that      *)
(* reading, and both leave the Generator with the same lastSeq.            *)

RECURSIVE Singles(_, _, _)
\* n successive NewV7 calls from lastSeq = last with the clock held at nano:
\* the final lastSeq and bytes 0-7 of each result.
Singles(last, nano, n) ==
    IF n = 0 THEN [last |-> last, heads |-> <<>>]
    ELSE LET seq  == Bump(Candidate(nano), last)
             rest == Singles(seq, nano, n - 1)
         IN  [last  |-> rest.last,
              heads |-> <<Head8(EncodeV7(seq, [i \in 1..8 |-> 0]))>> \o rest.heads]

C4_BatchEqualsSingles ==
    (lastCall.op = "NewV7Batch" /\ lastCall.n >= 1) =>
        LET ref == Singles(lastCall.before, lastCall.nano, lastCall.n)
        IN  /\ [i \in 1..lastCall.n |-> Head8(lastCall.out[i])] = ref.heads
            /\ lastSeq = ref.last

\* A batch of two whose second UUID carried into the next millisecond.
C4_Witness ==
    /\ lastCall.op = "NewV7Batch"
    /\ lastCall.n = 2
    /\ MsOf(lastCall.out[2]) = MsOf(lastCall.out[1]) + 1

----------------------------------------------------------------------------
(* C5.  Pool.NewV7 is equivalent to Generator.NewV7: fed the same clock    *)
(* readings, successive calls on a new Pool and on a new Generator return  *)
(* the same bytes 0-7, so the Pool's outputs are strictly increasing, also *)
(* when the clock does not advance and across a refill.                    *)
C5_PoolEqualsGenerator ==
    poolCalls >= 1 =>
        /\ Len(issued) = 1
        /\ Head8(poolTrail[Len(poolTrail)]) = Head8(issued[1])
        /\ v7seq = lastSeq
        /\ v7pos \in 1..poolSize
        /\ Len(poolTrail) = 2 => Compare(poolTrail[1], poolTrail[2]) = -1

\* The clock stood at the last slot of millisecond 0 for 257 calls: every
\* call after the first was bumped, the one that refilled the buffer after
\* the 256 chunks of the first fill included.
C5_Witness ==
    /\ poolCalls = poolSize + 1
    /\ v7pos = 1
    /\ SeqOf(poolTrail[2]) = SeqOf(poolTrail[1]) + 1
    /\ v7seq = 4095 + poolSize
    /\ Compare(poolTrail[1], poolTrail[2]) = -1

----------------------------------------------------------------------------
(* The hex codec: String and encodeHex (src/uuid.go), Parse, ParseLenient  *)
(* and their helpers (src/generator.go).  Characters are byte codes.       *)

\* var xvalues = [256]byte{...}: Go's xvalues[b] is xvalues[b + 1] here.
xvalues ==
   <<
      255, 255, 255, 255, 255, 255, 255, 255, 255, 255, 255, 255, 255, 255, 255, 255,
      255, 255, 255, 255, 255, 255, 255, 255, 255, 255, 255, 255, 255, 255, 255, 255,
      255, 255, 255, 255, 255, 255, 255, 255, 255, 255, 255, 255, 255, 255, 255, 255,
        0,   1,   2,   3,   4,   5,   6,   7,   8,   9, 255, 255, 255, 255, 255, 255,
      255,  10,  11,  12,  13,  14,  15, 255, 255, 255, 255, 255, 255, 255, 255, 255,
      255, 255, 255, 255, 255, 255, 255, 255, 255, 255, 255, 255, 255, 255, 255, 255,
      255,  10,  11,  12,  13,  14,  15, 255, 255, 255, 255, 255, 255, 255, 255, 255,
      255, 255, 255, 255, 255, 255, 255, 255, 255, 255, 255, 255, 255, 255, 255, 255,
      255, 255, 255, 255, 255, 255, 255, 255, 255, 255, 255, 255, 255, 255, 255, 255,
      255, 255, 255, 255, 255, 255, 255, 255, 255, 255, 255, 255, 255, 255, 255, 255,
      255, 255, 255, 255, 255, 255, 255, 255, 255, 255, 255, 255, 255, 255, 255, 255,
      255, 255, 255, 255, 255, 255, 255, 255, 255, 255, 255, 255, 255, 255, 255, 255,
      255, 255, 255, 255, 255, 255, 255, 255, 255, 255, 255, 255, 255, 255, 255, 255,
      255, 255, 255, 255, 255, 255, 255, 255, 255, 255, 255, 255, 255, 255, 255, 255,
      255, 255, 255, 255, 255, 255, 255, 255, 255, 255, 255, 255, 255, 255, 255, 255,
      255, 255, 255, 255, 255, 255, 255, 255, 255, 255, 255, 255, 255, 255, 255, 255
   >>

\* func xtob(x1, x2 byte) (byte, bool): b1<<4 | b2 in a byte, and whether
\* neither table entry is 0xff.
xtob(x1, x2) ==
    LET b1 == xvalues[x1 + 1]
        b2 == xvalues[x2 + 1]
    IN  [v |-> BitOr(Byte(Shl(b1, 4)), b2), ok |-> b1 # 255 /\ b2 # 255]

\* var hexOffsets = [16]int{...}: Go's hexOffsets[i] is hexOffsets[i + 1].
hexOffsets == <<0, 2, 4, 6, 9, 11, 14, 16, 19, 21, 24, 26, 28, 30, 32, 34>>

\* The messages of the *ParseError values.
MsgLength == "expected 36-character hyphenated format"
MsgHyphens == "expected hyphens at positions 8, 13, 18, 23"
MsgHex == "invalid hex character"
MsgPrefix == "expected urn:uuid: prefix"
MsgPortion == "expected hyphens in UUID portion"
MsgBraces == "expected braces"
MsgFormat == "unrecognized UUID format"

\* The character '-'.
Dash == 45

\* s[a] != '-' || s[b] != '-' || s[c] != '-' || s[d] != '-', Go indices.
NotDashes(s, a, b, c, d) ==
    s[a + 1] # Dash \/ s[b + 1] # Dash \/ s[c + 1] # Dash \/ s[d + 1] # Dash

\* parseHex returning what it had decoded when it met the failing digit.
parseHexPartial(op, s, offset) ==
    LET pair == [i \in 1..UUIDSize |->
                    xtob(s[hexOffsets[i] + offset + 1],
                         s[hexOffsets[i] + offset + 2])]
        bad  == {i \in 1..UUIDSize : ~pair[i].ok}
        stop == CHOOSE i \in bad : \A j \in bad : i <= j
    IN  IF bad # {}
        THEN Result(op, s, FALSE,
                    [i \in 1..UUIDSize |-> IF i < stop THEN pair[i].v ELSE 0], MsgHex)
        ELSE Result(op, s, TRUE, [i \in 1..UUIDSize |-> pair[i].v], "")

\* The loop of parseHex: for i, x := range hexOffsets { x += offset;
\* v, ok := xtob(s[x], s[x+1]); if !ok { return Nil, error }; u[i] = v }.
\* u is a local of the call, so a failing digit leaves nothing but the
\* error behind.
parseHex(op, s, offset) ==
    LET pair == [i \in 1..UUIDSize |->
                    xtob(s[hexOffsets[i] + offset + 1],
                         s[hexOffsets[i] + offset + 2])]
    IN  IF \E i \in 1..UUIDSize : ~pair[i].ok
        THEN Result(op, s, FALSE, ZeroUUID, MsgHex)
        ELSE Result(op, s, TRUE, [i \in 1..UUIDSize |-> pair[i].v], "")

\* parseHex used on the compact form.
parseCompactWithHyphens(op, s) == parseHex(op, s \o <<48, 48, 48, 48>>, 0)

\* func parseCompact(s string) (UUID, error): xtob(s[i*2], s[i*2+1]).
parseCompact(op, s) ==
    LET pair == [i \in 1..UUIDSize |-> xtob(s[2 * (i - 1) + 1], s[2 * (i - 1) + 2])]
    IN  IF \E i \in 1..UUIDSize : ~pair[i].ok
        THEN Result(op, s, FALSE, ZeroUUID, MsgHex)
        ELSE Result(op, s, TRUE, [i \in 1..UUIDSize |-> pair[i].v], "")

\* Parse without the check of the hyphens.
ParseNoHyphens(s) ==
    IF Len(s) # 36 THEN Result("Parse", s, FALSE, ZeroUUID, MsgLength)
    ELSE parseHex("Parse", s, 0)

\* func Parse(s string) (UUID, error)
Parse(s) ==
    IF Len(s) # 36 THEN Result("Parse", s, FALSE, ZeroUUID, MsgLength)
    ELSE IF NotDashes(s, 8, 13, 18, 23)
         THEN Result("Parse", s, FALSE, ZeroUUID, MsgHyphens)
    ELSE parseHex("Parse", s, 0)

\* "urn:uuid:"
urnPrefix == <<117, 114, 110, 58, 117, 117, 105, 100, 58>>

\* ParseLenient that takes any nine characters for the prefix.
ParseLenientAnyPrefix(s) ==
    CASE Len(s) = 36 ->
            IF NotDashes(s, 8, 13, 18, 23)
            THEN Result("ParseLenient", s, FALSE, ZeroUUID, MsgHyphens)
            ELSE parseHex("ParseLenient", s, 0)
      [] Len(s) = 45 ->
            IF NotDashes(s, 17, 22, 27, 32)
            THEN Result("ParseLenient", s, FALSE, ZeroUUID, MsgPortion)
            ELSE parseHex("ParseLenient", s, 9)
      [] Len(s) = 38 ->
            IF s[1] # 123 \/ s[38] # 125
            THEN Result("ParseLenient", s, FALSE, ZeroUUID, MsgBraces)
            ELSE IF NotDashes(s, 9, 14, 19, 24)
                 THEN Result("ParseLenient", s, FALSE, ZeroUUID, MsgPortion)
            ELSE parseHex("ParseLenient", s, 1)
      [] Len(s) = 32 -> parseCompact("ParseLenient", s)
      [] OTHER -> Result("ParseLenient", s, FALSE, ZeroUUID, MsgFormat)

\* func ParseLenient(s string) (UUID, error): switch len(s).  '{' is 123
\* and '}' is 125.
ParseLenient(s) ==
    CASE Len(s) = 36 ->
            IF NotDashes(s, 8, 13, 18, 23)
            THEN Result("ParseLenient", s, FALSE, ZeroUUID, MsgHyphens)
            ELSE parseHex("ParseLenient", s, 0)
      [] Len(s) = 45 ->
            IF SubSeq(s, 1, 9) # urnPrefix
            THEN Result("ParseLenient", s, FALSE, ZeroUUID, MsgPrefix)
            ELSE IF NotDashes(s, 17, 22, 27, 32)
                 THEN Result("ParseLenient", s, FALSE, ZeroUUID, MsgPortion)
            ELSE parseHex("ParseLenient", s, 9)
      [] Len(s) = 38 ->
            IF s[1] # 123 \/ s[38] # 125
            THEN Result("ParseLenient", s, FALSE, ZeroUUID, MsgBraces)
            ELSE IF NotDashes(s, 9, 14, 19, 24)
                 THEN Result("ParseLenient", s, FALSE, ZeroUUID, MsgPortion)
            ELSE parseHex("ParseLenient", s, 1)
      [] Len(s) = 32 -> parseCompact("ParseLenient", s)
      [] OTHER -> Result("ParseLenient", s, FALSE, ZeroUUID, MsgFormat)

\* "0123456789ABCDEF"
hexDigitsUpper == <<48, 49, 50, 51, 52, 53, 54, 55, 56, 57, 65, 66, 67, 68, 69, 70>>

\* const hexDigits = "0123456789abcdef": Go's hex[n] is hexDigits[n + 1].
hexDigits == <<48, 49, 50, 51, 52, 53, 54, 55, 56, 57, 97, 98, 99, 100, 101, 102>>

\* encodeHex writing the low digit of each byte before the high one.
encodeHexLowFirst(u) ==
    <<
        hexDigits[BitAnd(u[1], 15) + 1],
        hexDigits[Shr(u[1], 4) + 1],
        hexDigits[BitAnd(u[2], 15) + 1],
        hexDigits[Shr(u[2], 4) + 1],
        hexDigits[BitAnd(u[3], 15) + 1],
        hexDigits[Shr(u[3], 4) + 1],
        hexDigits[BitAnd(u[4], 15) + 1],
        hexDigits[Shr(u[4], 4) + 1],
        Dash,
        hexDigits[BitAnd(u[5], 15) + 1],
        hexDigits[Shr(u[5], 4) + 1],
        hexDigits[BitAnd(u[6], 15) + 1],
        hexDigits[Shr(u[6], 4) + 1],
        Dash,
        hexDigits[BitAnd(u[7], 15) + 1],
        hexDigits[Shr(u[7], 4) + 1],
        hexDigits[BitAnd(u[8], 15) + 1],
        hexDigits[Shr(u[8], 4) + 1],
        Dash,
        hexDigits[BitAnd(u[9], 15) + 1],
        hexDigits[Shr(u[9], 4) + 1],
        hexDigits[BitAnd(u[10], 15) + 1],
        hexDigits[Shr(u[10], 4) + 1],
        Dash,
        hexDigits[BitAnd(u[11], 15) + 1],
        hexDigits[Shr(u[11], 4) + 1],
        hexDigits[BitAnd(u[12], 15) + 1],
        hexDigits[Shr(u[12], 4) + 1],
        hexDigits[BitAnd(u[13], 15) + 1],
        hexDigits[Shr(u[13], 4) + 1],
        hexDigits[BitAnd(u[14], 15) + 1],
        hexDigits[Shr(u[14], 4) + 1],
        hexDigits[BitAnd(u[15], 15) + 1],
        hexDigits[Shr(u[15], 4) + 1],
        hexDigits[BitAnd(u[16], 15) + 1],
        hexDigits[Shr(u[16], 4) + 1]
    >>

\* func encodeHex(dst []byte, u UUID), assignment by assignment: entry
\* d + 1 is what the code writes to dst[d], Go's u[i] being u[i + 1].
encodeHex(u) ==
    <<
        hexDigits[Shr(u[1], 4) + 1],
        hexDigits[BitAnd(u[1], 15) + 1],
        hexDigits[Shr(u[2], 4) + 1],
        hexDigits[BitAnd(u[2], 15) + 1],
        hexDigits[Shr(u[3], 4) + 1],
        hexDigits[BitAnd(u[3], 15) + 1],
        hexDigits[Shr(u[4], 4) + 1],
        hexDigits[BitAnd(u[4], 15) + 1],
        Dash,
        hexDigits[Shr(u[5], 4) + 1],
        hexDigits[BitAnd(u[5], 15) + 1],
        hexDigits[Shr(u[6], 4) + 1],
        hexDigits[BitAnd(u[6], 15) + 1],
        Dash,
        hexDigits[Shr(u[7], 4) + 1],
        hexDigits[BitAnd(u[7], 15) + 1],
        hexDigits[Shr(u[8], 4) + 1],
        hexDigits[BitAnd(u[8], 15) + 1],
        Dash,
        hexDigits[Shr(u[9], 4) + 1],
        hexDigits[BitAnd(u[9], 15) + 1],
        hexDigits[Shr(u[10], 4) + 1],
        hexDigits[BitAnd(u[10], 15) + 1],
        Dash,
        hexDigits[Shr(u[11], 4) + 1],
        hexDigits[BitAnd(u[11], 15) + 1],
        hexDigits[Shr(u[12], 4) + 1],
        hexDigits[BitAnd(u[12], 15) + 1],
        hexDigits[Shr(u[13], 4) + 1],
        hexDigits[BitAnd(u[13], 15) + 1],
        hexDigits[Shr(u[14], 4) + 1],
        hexDigits[BitAnd(u[14], 15) + 1],
        hexDigits[Shr(u[15], 4) + 1],
        hexDigits[BitAnd(u[15], 15) + 1],
        hexDigits[Shr(u[16], 4) + 1],
        hexDigits[BitAnd(u[16], 15) + 1]
    >>

\* func (u UUID) String() string
String(u) == encodeHex(u)

----------------------------------------------------------------------------
(* The strings and values the codec is run on.                             *)

\* The 32 digits of a string in standard form, and the four forms of 32
\* digits, as the callers of the parsers write them.
DigitsOf(s) ==
    SubSeq(s, 1, 8) \o SubSeq(s, 10, 13) \o SubSeq(s, 15, 18)
        \o SubSeq(s, 20, 23) \o SubSeq(s, 25, 36)

StandardForm(h) ==
    SubSeq(h, 1, 8) \o <<45>> \o SubSeq(h, 9, 12) \o <<45>> \o SubSeq(h, 13, 16)
        \o <<45>> \o SubSeq(h, 17, 20) \o <<45>> \o SubSeq(h, 21, 32)

URNForm(h) == <<117, 114, 110, 58, 117, 117, 105, 100, 58>> \o StandardForm(h)

BracedForm(h) == <<123>> \o StandardForm(h) \o <<125>>

CompactForm(h) == h

\* "6ba7b810-9dad-11d1-80b4-00c04fd430c8"
SeedLower ==
    <<
      54, 98, 97, 55, 98, 56, 49, 48, 45, 57, 100, 97,
      100, 45, 49, 49, 100, 49, 45, 56, 48, 98, 52, 45,
      48, 48, 99, 48, 52, 102, 100, 52, 51, 48, 99, 56
    >>

\* "00112233-4455-6677-8899-aAbBcCdDeEfF"
SeedMixed ==
    <<
      48, 48, 49, 49, 50, 50, 51, 51, 45, 52, 52, 53,
      53, 45, 54, 54, 55, 55, 45, 56, 56, 57, 57, 45,
      97, 65, 98, 66, 99, 67, 100, 68, 101, 69, 102, 70
    >>

\* "FFFFFFFF-FFFF-FFFF-FFFF-FFFFFFFFFFFF"
SeedUpper ==
    <<
      70, 70, 70, 70, 70, 70, 70, 70, 45, 70, 70, 70,
      70, 45, 70, 70, 70, 70, 45, 70, 70, 70, 70, 45,
      70, 70, 70, 70, 70, 70, 70, 70, 70, 70, 70, 70
    >>

Seeds == {SeedLower, SeedMixed, SeedUpper}

\* Every seed in every form.
BaseStrings ==
    UNION {{s, URNForm(DigitsOf(s)), BracedForm(DigitsOf(s)), CompactForm(DigitsOf(s))} :
              s \in Seeds}

\* The characters put in place of a character of a base string: the ends
\* of the three ranges of hex digits and their neighbours / : @ G ` g, the
\* characters of the wrappers - { } u U, a space, and the bytes 0 and 255.
ProbeChars ==
    {48, 57, 97, 102, 65, 70, 47, 58, 64, 71, 96, 103,
     45, 123, 125, 117, 85, 32, 0, 255}

Replaced(s, p, c) == [s EXCEPT ![p] = c]

Swapped(s, p) == [s EXCEPT ![p] = s[p + 1], ![p + 1] = s[p]]

\* The strings handed to Parse and ParseLenient: the base strings; each
\* with one character replaced by a probe; each with two neighbours
\* swapped; each with a character dropped at either end or a probe added;
\* the standard form with any byte at its first digit, first hyphen and
\* last digit; the strings of zeros of every length up to 46; and the
\* strings of the four dispatched lengths made of z, of - and of byte 255.
ParseInputs ==
    BaseStrings
    \cup UNION {{Replaced(s, p, c) : p \in 1..Len(s), c \in ProbeChars} : s \in BaseStrings}
    \cup UNION {{Swapped(s, p) : p \in 1..(Len(s) - 1)} : s \in BaseStrings}
    \cup UNION {{SubSeq(s, 1, Len(s) - 1), SubSeq(s, 2, Len(s))} : s \in BaseStrings}
    \cup UNION {{s \o <<c>> : c \in ProbeChars} : s \in BaseStrings}
    \cup {Replaced(SeedLower, p, c) : p \in {1, 9, 36}, c \in Bytes}
    \cup {[i \in 1..n |-> 48] : n \in 0..46}
    \cup {[i \in 1..n |-> c] : n \in {32, 36, 38, 45}, c \in {122, 45, 255}}

\* The values handed to String: Nil with one byte set to any value (every
\* version and variant nibble among them), the values of 16 equal bytes
\* (Nil and Max among them) and a version 1 value.
CodecValues ==
    {[ZeroUUID EXCEPT ![i] = b] : i \in 1..UUIDSize, b \in Bytes}
    \cup {[i \in 1..UUIDSize |-> b] : b \in Bytes}
    \cup {NamespaceDNS}

\* The hex digits 0-9, a-f and A-F.
HexChars == (48..57) \cup (97..102) \cup (65..70)

\* The payloads written in the four forms: the digits of the seeds, and
\* those of the mixed seed with one digit replaced by any hex digit.
Payloads ==
    {DigitsOf(s) : s \in Seeds}
    \cup {Replaced(DigitsOf(SeedMixed), p, c) : p \in 1..32, c \in HexChars}

----------------------------------------------------------------------------
(* Strings parsed, and the accepted ones formatted again.                  *)

ParseInit ==
    /\ GenInit /\ FrozenIdle /\ ConcIdle /\ NewPool /\ ExtIdle
    /\ input \in ParseInputs
    /\ val = ZeroUUID
    /\ text = <<>>
    /\ res = NoRes
    /\ payload = <<>>
    /\ got = [f \in Forms |-> NoRes]

\* u, err := Parse(input)
CallParse ==
    /\ res = NoRes
    /\ res' = Parse(input)
    /\ UNCHANGED <<val, text, input, payload, got, genVars, frozenVars, concVars, poolVars, extVars>>

\* u, err := ParseLenient(input)
CallParseLenient ==
    /\ res = NoRes
    /\ res' = ParseLenient(input)
    /\ UNCHANGED <<val, text, input, payload, got, genVars, frozenVars, concVars, poolVars, extVars>>

\* u.String() on the value Parse returned with a nil error
CallStringOfResult ==
    /\ res.op = "Parse"
    /\ res.ok
    /\ text = <<>>
    /\ val' = res.u
    /\ text' = String(res.u)
    /\ UNCHANGED <<input, res, payload, got, genVars, frozenVars, concVars, poolVars, extVars>>

ParseNext == CallParse \/ CallParseLenient \/ CallStringOfResult

SpecParse == ParseInit /\ [][ParseNext]_vars

----------------------------------------------------------------------------
(* Values formatted and the text parsed back.                              *)

CodecInit ==
    /\ GenInit /\ FrozenIdle /\ ConcIdle /\ NewPool /\ ExtIdle
    /\ val \in CodecValues
    /\ text = <<>>
    /\ input = <<>>
    /\ res = NoRes
    /\ payload = <<>>
    /\ got = [f \in Forms |-> NoRes]

\* s := val.String()
CallString ==
    /\ text = <<>>
    /\ text' = String(val)
    /\ UNCHANGED <<val, input, res, payload, got, genVars, frozenVars, concVars, poolVars, extVars>>

\* u, err := Parse(s)
ParseOfString ==
    /\ text # <<>>
    /\ res = NoRes
    /\ input' = text
    /\ res' = Parse(text)
    /\ UNCHANGED <<val, text, payload, got, genVars, frozenVars, concVars, poolVars, extVars>>

CodecNext == CallString \/ ParseOfString

SpecCodec == CodecInit /\ [][CodecNext]_vars

----------------------------------------------------------------------------
(* One payload written in every form and parsed.                           *)

FormsInit ==
    /\ GenInit /\ FrozenIdle /\ ConcIdle /\ NewPool /\ ExtIdle
    /\ payload \in Payloads
    /\ val = ZeroUUID
    /\ text = <<>>
    /\ input = <<>>
    /\ res = NoRes
    /\ got = [f \in Forms |-> NoRes]

\* The string a form names.
WriteForm(f, h) ==
    CASE f = "urn" -> URNForm(h)
      [] f = "braced" -> BracedForm(h)
      [] f = "compact" -> CompactForm(h)
      [] OTHER -> StandardForm(h)

\* Parse on the standard form, ParseLenient on each of the four forms; the
\* calls are made in any order.
ParseForm(f) ==
    LET s == WriteForm(f, payload)
        r == IF f = "strict" THEN Parse(s) ELSE ParseLenient(s)
    IN  /\ got[f] = NoRes
        /\ got' = [got EXCEPT ![f] = r]
        /\ UNCHANGED <<val, text, input, res, payload, genVars, frozenVars, concVars, poolVars, extVars>>

FormsNext == \E f \in Forms : ParseForm(f)

SpecForms == FormsInit /\ [][FormsNext]_vars

----------------------------------------------------------------------------
(* The shapes of strings, said without the parsers' tables.                *)

IsHex(c) == \/ c \in 48..57
            \/ c \in 97..102
            \/ c \in 65..70

HyphenPlaces == {9, 14, 19, 24}

\* 36 characters, '-' at indices 8, 13, 18, 23, hex digits elsewhere.
IsStandard(s) ==
    /\ Len(s) = 36
    /\ \A p \in 1..36 : IF p \in HyphenPlaces THEN s[p] = 45 ELSE IsHex(s[p])

IsURN(s) ==
    /\ Len(s) = 45
    /\ SubSeq(s, 1, 9) = <<117, 114, 110, 58, 117, 117, 105, 100, 58>>
    /\ IsStandard(SubSeq(s, 10, 45))

IsBraced(s) ==
    /\ Len(s) = 38
    /\ s[1] = 123
    /\ s[38] = 125
    /\ IsStandard(SubSeq(s, 2, 37))

IsCompact(s) ==
    /\ Len(s) = 32
    /\ \A p \in 1..32 : IsHex(s[p])

\* s with every A-F replaced by a-f.
Lowered(s) == [p \in 1..Len(s) |-> IF s[p] \in 65..70 THEN s[p] + 32 ELSE s[p]]

\* A rejection: the Nil value and a *ParseError.
Rejected(r) == ~r.ok /\ r.u = ZeroUUID /\ r.err = "ParseError"

\* C6: Parse accepts s exactly when s has 36 characters, '-' at indices 8,
\* 13, 18 and 23 and hex digits at the other 32 places; every other
\* string, the well-formed URN, braced and compact forms among them, is
\* rejected with a ParseError.
C6_ParseAcceptsStandardOnly ==
    res.op = "Parse" =>
        /\ res.ok <=> IsStandard(input)
        /\ res.ok => res.err = "nil"
        /\ ~res.ok => Rejected(res)
        /\ (IsURN(input) \/ IsBraced(input) \/ IsCompact(input)) => Rejected(res)

\* Parse has accepted a standard string with an uppercase digit.
C6_Witness ==
    /\ res.op = "Parse"
    /\ res.ok
    /\ IsStandard(input)
    /\ \E p \in 1..36 : input[p] \in 65..70

\* C7: for every 16-byte value v, Parse(v.String()) succeeds and returns v.
C7_RoundTrip ==
    res.op = "Parse" =>
        /\ input = text
        /\ res.ok
        /\ res.err = "nil"
        /\ res.u = val

\* The text of a version 1 value was parsed back to it.
C7_Witness ==
    /\ res.op = "Parse"
    /\ val = NamespaceDNS
    /\ Len(text) = 36
    /\ res.u = NamespaceDNS

\* C8: for every s that Parse accepts, Parse(s).String() is s with A-F
\* lowered and nothing else changed: 36 characters, hyphens at 8, 13, 18,
\* 23, digits from 0-9a-f only.
C8_StringLowers ==
    (res.op = "Parse" /\ text # <<>>) =>
        /\ text = Lowered(input)
        /\ Len(text) = 36
        /\ \A p \in 1..36 :
              IF p \in HyphenPlaces THEN text[p] = 45
              ELSE text[p] \in (48..57) \cup (97..102)

\* An accepted string with uppercase digits was formatted again, and the
\* text differs from it.
C8_Witness ==
    /\ res.op = "Parse"
    /\ res.ok
    /\ text # <<>>
    /\ text # input
    /\ text = Lowered(input)

\* C9: for every payload of 32 hex digits, ParseLenient returns the same
\* value for the standard, the URN, the braced and the compact form, and
\* that value is the one Parse returns for the standard form.
C9_FormsAgree ==
    \A f \in Forms : \A g \in Forms :
        (got[f].op # "none" /\ got[g].op # "none") =>
            /\ got[f].ok
            /\ got[f].err = "nil"
            /\ got[f].u = got[g].u

\* All five calls were made on a payload whose bytes differ, and gave one
\* value.
C9_Witness ==
    /\ \A f \in Forms : got[f].op # "none"
    /\ got["strict"].op = "Parse"
    /\ got["compact"].op = "ParseLenient"
    /\ got["compact"].u = got["strict"].u
    /\ got["urn"].u = got["braced"].u
    /\ got["strict"].u[5] # got["strict"].u[6]

\* C10: ParseLenient accepts s exactly when s is a standard string of 36,
\* "urn:uuid:" and a standard string (45), '{', a standard string and '}'
\* (38), or 32 hex digits; a string of any other length is rejected as
\* unrecognized whatever its characters are.
C10_LenientByLength ==
    res.op = "ParseLenient" =>
        /\ res.ok <=> (IsStandard(input) \/ IsURN(input) \/ IsBraced(input) \/ IsCompact(input))
        /\ res.ok => res.err = "nil"
        /\ ~res.ok => Rejected(res)
        /\ Len(input) \notin {36, 45, 38, 32} => (Rejected(res) /\ res.msg = MsgFormat)
        /\ res.msg = MsgFormat => Len(input) \notin {36, 45, 38, 32}

\* ParseLenient has accepted a string in URN form.
C10_Witness ==
    /\ res.op = "ParseLenient"
    /\ res.ok
    /\ Len(input) = 45
    /\ IsURN(input)

----------------------------------------------------------------------------
(* The index expressions the parsers evaluate, as Go indices.              *)

\* The indices parseHex and parseCompact hand to xtob; a loop that stops
\* at a failing digit evaluates some of them.
HexReads(offset) ==
    UNION {{hexOffsets[i] + offset, hexOffsets[i] + offset + 1} : i \in 1..UUIDSize}

CompactReads == UNION {{2 * i, 2 * i + 1} : i \in 0..(UUIDSize - 1)}

\* Parse: nothing is indexed unless len(s) == 36, the digits only after
\* the four hyphens were found.
ParseReads(s) ==
    IF Len(s) # 36 THEN {}
    ELSE {8, 13, 18, 23}
         \cup (IF NotDashes(s, 8, 13, 18, 23) THEN {} ELSE HexReads(0))

\* ParseLenient: s[:9] evaluates the indices 0..8.
ParseLenientReads(s) ==
    CASE Len(s) = 36 ->
            {8, 13, 18, 23}
            \cup (IF NotDashes(s, 8, 13, 18, 23) THEN {} ELSE HexReads(0))
      [] Len(s) = 45 ->
            (0..8)
            \cup (IF SubSeq(s, 1, 9) # urnPrefix THEN {}
                  ELSE {17, 22, 27, 32}
                       \cup (IF NotDashes(s, 17, 22, 27, 32) THEN {} ELSE HexReads(9)))
      [] Len(s) = 38 ->
            {0, 37}
            \cup (IF s[1] # 123 \/ s[38] # 125 THEN {}
                  ELSE {9, 14, 19, 24}
                       \cup (IF NotDashes(s, 9, 14, 19, 24) THEN {} ELSE HexReads(1)))
      [] Len(s) = 32 -> CompactReads
      [] OTHER -> {}

\* C11: on every input, of every length and byte content, Parse and
\* ParseLenient index the string only within its length, and return a value
\* with a nil error or Nil with a ParseError whose Input is the string
\* given; a failed parse returns no partly decoded value.
C11_ParsersTotal ==
    res.op \in {"Parse", "ParseLenient"} =>
        /\ \A i \in (IF res.op = "Parse" THEN ParseReads(input)
                     ELSE ParseLenientReads(input)) : 0 <= i /\ i < Len(input)
        /\ \/ res.ok /\ res.err = "nil"
           \/ /\ ~res.ok
              /\ res.err = "ParseError"
              /\ res.Input = input
              /\ res.u = ZeroUUID

\* ParseLenient met a bad digit in the last byte of a braced string, after
\* fifteen good ones, and returned Nil.
C11_Witness ==
    /\ res.op = "ParseLenient"
    /\ Len(input) = 38
    /\ res.msg = MsgHex
    /\ IsHex(input[2]) /\ IsHex(input[3])
    /\ ~IsHex(input[37])
    /\ res.u = ZeroUUID
    /\ res.Input = input

----------------------------------------------------------------------------
(* The text, binary and database/sql methods (src/format.go, Scan and      *)
(* Value), and FromBytes (src/generator.go).  A pointer-receiver method    *)
(* takes the receiver's value and gives back the value it leaves there.    *)

\* What such a call returns: nil, a *ParseError{Input, Msg}, a
\* *LengthError{Got}, or the error of fmt.Errorf; out is the value returned
\* beside the error.
Ret(op, err, in, msg, n, out) ==
    [op |-> op, err |-> err, Input |-> in, msg |-> msg, Got |-> n, out |-> out]

RECURSIVE parseHexBytesFrom(_, _, _, _)
\* The loop of parseHexBytes from byte i on: u[i] = v is done for every
\* pair before the first one xtob refuses.
parseHexBytesFrom(u, b, offset, i) ==
    IF i > UUIDSize THEN [u |-> u, ok |-> TRUE]
    ELSE LET x == hexOffsets[i] + offset
             r == xtob(b[x + 1], b[x + 2])
         IN  IF ~r.ok THEN [u |-> u, ok |-> FALSE]
             ELSE parseHexBytesFrom([u EXCEPT ![i] = r.v], b, offset, i + 1)

\* func parseHexBytes(u *UUID, b []byte, offset int) bool
parseHexBytes(u, b, offset) == parseHexBytesFrom(u, b, offset, 1)

\* UnmarshalText with a message of its own for a wrong length.
UnmarshalTextOwnMsg(u, d) ==
    IF Len(d) # 36
    THEN [u |-> u, ret |-> Ret("UnmarshalText", "ParseError", d, MsgFormat, 0, <<>>)]
    ELSE IF NotDashes(d, 8, 13, 18, 23)
         THEN [u |-> u, ret |-> Ret("UnmarshalText", "ParseError", d, MsgHyphens, 0, <<>>)]
    ELSE LET r == parseHexBytes(u, d, 0)
         IN  IF ~r.ok
             THEN [u |-> r.u, ret |-> Ret("UnmarshalText", "ParseError", d, MsgHex, 0, <<>>)]
             ELSE [u |-> r.u, ret |-> Ret("UnmarshalText", "nil", <<>>, "", 0, <<>>)]

\* func (u *UUID) UnmarshalText(data []byte) error
UnmarshalText(u, d) ==
    IF Len(d) # 36
    THEN [u |-> u, ret |-> Ret("UnmarshalText", "ParseError", d, MsgLength, 0, <<>>)]
    ELSE IF NotDashes(d, 8, 13, 18, 23)
         THEN [u |-> u, ret |-> Ret("UnmarshalText", "ParseError", d, MsgHyphens, 0, <<>>)]
    ELSE LET r == parseHexBytes(u, d, 0)
         IN  IF ~r.ok
             THEN [u |-> r.u, ret |-> Ret("UnmarshalText", "ParseError", d, MsgHex, 0, <<>>)]
             ELSE [u |-> r.u, ret |-> Ret("UnmarshalText", "nil", <<>>, "", 0, <<>>)]

\* copy(dst, src) on a 16-byte dst: min(16, len(src)) bytes are copied.
Copy16(dst, src) ==
    [i \in 1..UUIDSize |-> IF i <= Len(src) THEN src[i] ELSE dst[i]]

\* func (u UUID) MarshalBinary() ([]byte, error) and func (u UUID) Bytes():
\* a new slice of 16 bytes that u is copied to.
MarshalBinary(u) == Copy16([i \in 1..UUIDSize |-> 0], u)

\* FromBytes taking the first 16 bytes of a longer slice.
FromBytesPrefix(b) ==
    IF Len(b) < 16
    THEN Ret("FromBytes", "LengthError", <<>>, "16 bytes", Len(b), ZeroUUID)
    ELSE Ret("FromBytes", "nil", <<>>, "", 0, Copy16(ZeroUUID, b))

\* func FromBytes(b []byte) (UUID, error)
FromBytes(b) ==
    IF Len(b) # 16
    THEN Ret("FromBytes", "LengthError", <<>>, "16 bytes", Len(b), ZeroUUID)
    ELSE Ret("FromBytes", "nil", <<>>, "", 0, Copy16(ZeroUUID, b))

\* func (u *UUID) UnmarshalBinary(data []byte) error
UnmarshalBinary(u, d) ==
    IF Len(d) # 16
    THEN [u |-> u, ret |-> Ret("UnmarshalBinary", "LengthError", <<>>, "16 bytes", Len(d), <<>>)]
    ELSE [u |-> Copy16(u, d), ret |-> Ret("UnmarshalBinary", "nil", <<>>, "", 0, <<>>)]

\* The two branches of Scan that call ParseLenient: return err, or *u =
\* parsed.
ScanParsed(u, s) ==
    LET r == ParseLenient(s)
    IN  IF ~r.ok
        THEN [u |-> u, ret |-> Ret("Scan", r.err, r.Input, r.msg, 0, <<>>)]
        ELSE [u |-> r.u, ret |-> Ret("Scan", "nil", <<>>, "", 0, <<>>)]

\* Scan copying whatever bytes it is given.
ScanCopiesAll(u, src) ==
    CASE src.kind = "string" -> ScanParsed(u, src.bytes)
      [] src.kind = "bytes" ->
            [u |-> Copy16(u, src.bytes), ret |-> Ret("Scan", "nil", <<>>, "", 0, <<>>)]
      [] OTHER ->
            [u |-> u, ret |-> Ret("Scan", "error", <<>>, "cannot scan into UUID", 0, <<>>)]

\* func (u *UUID) Scan(src any) error: the type switch on src.
Scan(u, src) ==
    CASE src.kind = "string" -> ScanParsed(u, src.bytes)
      [] src.kind = "bytes" ->
            IF Len(src.bytes) = 16
            THEN [u |-> Copy16(u, src.bytes), ret |-> Ret("Scan", "nil", <<>>, "", 0, <<>>)]
            ELSE ScanParsed(u, src.bytes)
      [] OTHER ->
            [u |-> u, ret |-> Ret("Scan", "error", <<>>, "cannot scan into UUID", 0, <<>>)]

\* Value returning the 16 bytes.
ValueRaw(u) == Ret("Value", "nil", <<>>, "", 0, [kind |-> "bytes", bytes |-> MarshalBinary(u)])

\* func (u UUID) Value() (driver.Value, error): u.String(), nil
Value(u) == Ret("Value", "nil", <<>>, "", 0, [kind |-> "string", bytes |-> String(u)])

----------------------------------------------------------------------------
(* One call of UnmarshalText, UnmarshalBinary, FromBytes or Scan on a      *)
(* receiver and an argument, and Parse on the same text.                   *)

\* The characters put in place of a character of a text: g, -, 0, F and
\* the byte 0.
TextProbes == {103, 45, 48, 70, 0}

\* The texts handed over: two standard strings, each with any one
\* character replaced by a probe, the other three forms, the compact form
\* with a bad last digit, and texts of the lengths 0, 35 and 37.
WireTexts ==
    {SeedLower, SeedMixed}
    \cup {Replaced(s, p, c) : s \in {SeedLower, SeedMixed}, p \in 1..36, c \in TextProbes}
    \cup {URNForm(DigitsOf(SeedMixed)), BracedForm(DigitsOf(SeedMixed)),
          CompactForm(DigitsOf(SeedMixed)),
          Replaced(CompactForm(DigitsOf(SeedMixed)), 32, 103),
          Replaced(URNForm(DigitsOf(SeedMixed)), 1, 85)}
    \cup {<<>>, SubSeq(SeedLower, 1, 35), SeedLower \o <<48>>}

\* The raw bytes handed over: slices of the lengths 0, 1, 15, 16 and 17,
\* and the first 16 characters of a standard string.
WireBinaries ==
    {[i \in 1..n |-> (17 * i) % 256] : n \in {0, 1, 15, 16, 17}}
    \cup {NamespaceDNS, [i \in 1..UUIDSize |-> 255], ZeroUUID, SubSeq(SeedLower, 1, 16)}

\* The kinds of src that are neither string nor []byte.
OtherKinds == {"nil", "int64", "float64", "bool", "time.Time"}

WireData ==
    {[kind |-> k, bytes |-> b] : k \in {"bytes", "string"}, b \in WireTexts \cup WireBinaries}
    \cup {[kind |-> k, bytes |-> <<>>] : k \in OtherKinds}

\* The values the receiver holds before the call.
Receivers == {ZeroUUID, NamespaceURL}

WireInit ==
    /\ GenInit /\ FrozenIdle /\ ConcIdle /\ NewPool /\ ParseIdle
    /\ StampIdle /\ HashIdle /\ CmpIdle /\ MoreIdle
    /\ recv \in Receivers
    /\ recv0 = recv
    /\ data \in WireData
    /\ ret = NoRet

WireFrame == UNCHANGED <<recv0, data, genVars, frozenVars, concVars, poolVars,
                         stampVars, hashVars, cmpVars, moreVars>>

\* err := recv.UnmarshalText(data)
CallUnmarshalText ==
    /\ ret = NoRet
    /\ data.kind = "bytes"
    /\ recv' = UnmarshalText(recv, data.bytes).u
    /\ ret' = UnmarshalText(recv, data.bytes).ret
    /\ UNCHANGED parseVars
    /\ WireFrame

\* err := recv.UnmarshalBinary(data)
CallUnmarshalBinary ==
    /\ ret = NoRet
    /\ data.kind = "bytes"
    /\ recv' = UnmarshalBinary(recv, data.bytes).u
    /\ ret' = UnmarshalBinary(recv, data.bytes).ret
    /\ UNCHANGED parseVars
    /\ WireFrame

\* u, err := FromBytes(data)
CallFromBytes ==
    /\ ret = NoRet
    /\ data.kind = "bytes"
    /\ ret' = FromBytes(data.bytes)
    /\ UNCHANGED <<recv, parseVars>>
    /\ WireFrame

\* err := recv.Scan(data)
CallScan ==
    /\ ret = NoRet
    /\ recv' = Scan(recv, data).u
    /\ ret' = Scan(recv, data).ret
    /\ UNCHANGED parseVars
    /\ WireFrame

\* u, err := Parse(string(data)), beside the call above
ParseOfData ==
    /\ res = NoRes
    /\ data.kind = "bytes"
    /\ input' = data.bytes
    /\ res' = Parse(data.bytes)
    /\ UNCHANGED <<val, text, payload, got, recv, ret>>
    /\ WireFrame

WireNext ==
    \/ CallUnmarshalText
    \/ CallUnmarshalBinary
    \/ CallFromBytes
    \/ CallScan
    \/ ParseOfData

SpecWire == WireInit /\ [][WireNext]_vars

\* C12: whenever UnmarshalText returns an error, the receiver holds the 16
\* bytes it held before the call.
C12_ReceiverKept ==
    (ret.op = "UnmarshalText" /\ ret.err # "nil") => recv = recv0

\* C13: UnmarshalText(d) succeeds exactly when Parse(string(d)) does; on
\* success the receiver is the value Parse returns, on failure the error
\* is a ParseError with the Input (the text given) and the message of
\* Parse's.
C13_UnmarshalTextIsParse ==
    (ret.op = "UnmarshalText" /\ res.op = "Parse") =>
        /\ input = data.bytes
        /\ ret.err = "nil" <=> res.ok
        /\ res.ok => recv = res.u
        /\ ~res.ok =>
              /\ ret.err = "ParseError"
              /\ ret.Input = data.bytes
              /\ ret.Input = res.Input
              /\ ret.msg = res.msg

\* Both calls were made on a text of wrong length, on one with a misplaced
\* hyphen or bad digit, or on a good one; this is the bad digit.
C13_Witness ==
    /\ ret.op = "UnmarshalText"
    /\ res.op = "Parse"
    /\ Len(data.bytes) = 36
    /\ res.msg = MsgHex
    /\ ret.msg = MsgHex
    /\ ret.Input = data.bytes

\* C14: FromBytes(b) and UnmarshalBinary(b) succeed exactly when len(b) is
\* 16, and the value then equals b, so that MarshalBinary of it gives b
\* again; for any other length the error is a LengthError with Got =
\* len(b), FromBytes returns Nil and UnmarshalBinary leaves the receiver
\* as it was.
C14_BinaryLength ==
    /\ ret.op = "FromBytes" =>
          /\ ret.err = "nil" <=> Len(data.bytes) = 16
          /\ ret.err = "nil" =>
                (ret.out = data.bytes /\ MarshalBinary(ret.out) = data.bytes)
          /\ ret.err # "nil" =>
                /\ ret.err = "LengthError"
                /\ ret.Got = Len(data.bytes)
                /\ ret.out = ZeroUUID
    /\ ret.op = "UnmarshalBinary" =>
          /\ ret.err = "nil" <=> Len(data.bytes) = 16
          /\ ret.err = "nil" =>
                (recv = data.bytes /\ MarshalBinary(recv) = data.bytes)
          /\ ret.err # "nil" =>
                /\ ret.err = "LengthError"
                /\ ret.Got = Len(data.bytes)
                /\ recv = recv0

\* FromBytes was given 17 bytes and reported that length.
C14_Witness ==
    /\ ret.op = "FromBytes"
    /\ Len(data.bytes) = 17
    /\ ret.err = "LengthError"
    /\ ret.Got = 17
    /\ ret.out = ZeroUUID

\* C15: Scan copies a byte slice of length 16 as it is, hands a string or
\* a byte slice of another length to ParseLenient, and rejects every other
\* kind of src; on every error the receiver is as it was.
C15_ScanKinds ==
    ret.op = "Scan" =>
        /\ (data.kind = "bytes" /\ Len(data.bytes) = 16) =>
              (ret.err = "nil" /\ recv = data.bytes)
        /\ (data.kind = "string" \/ (data.kind = "bytes" /\ Len(data.bytes) # 16)) =>
              /\ ret.err = "nil" <=>
                    \/ IsStandard(data.bytes)
                    \/ IsURN(data.bytes)
                    \/ IsBraced(data.bytes)
                    \/ IsCompact(data.bytes)
              /\ ret.err = "nil" => recv = ParseLenient(data.bytes).u
              /\ ret.err # "nil" =>
                    /\ ret.err = "ParseError"
                    /\ ret.msg = ParseLenient(data.bytes).msg
                    /\ ret.Input = data.bytes
        /\ data.kind \notin {"string", "bytes"} => ret.err = "error"
        /\ ret.err # "nil" => recv = recv0

\* Scan was given the 16 first characters of a standard string as bytes and
\* copied them.
C15_Witness ==
    /\ ret.op = "Scan"
    /\ data.kind = "bytes"
    /\ data.bytes = SubSeq(SeedLower, 1, 16)
    /\ recv = data.bytes
    /\ recv # recv0

----------------------------------------------------------------------------
(* Value on a UUID, and Scan of what it returned.                          *)

ValueInit ==
    /\ GenInit /\ FrozenIdle /\ ConcIdle /\ NewPool
    /\ StampIdle /\ HashIdle /\ CmpIdle /\ MoreIdle
    /\ val \in CodecValues
    /\ text = <<>>
    /\ input = <<>>
    /\ res = NoRes
    /\ payload = <<>>
    /\ got = [f \in Forms |-> NoRes]
    /\ recv \in Receivers
    /\ recv0 = recv
    /\ data = NoData
    /\ ret = NoRet

\* v, err := val.Value()
CallValue ==
    /\ ret = NoRet
    /\ ret' = Value(val)
    /\ data' = Value(val).out
    /\ UNCHANGED <<recv, recv0, parseVars, genVars, frozenVars, concVars, poolVars,
                   stampVars, hashVars, cmpVars, moreVars>>

\* err := recv.Scan(v)
ScanOfValue ==
    /\ ret.op = "Value"
    /\ recv' = Scan(recv, data).u
    /\ ret' = Scan(recv, data).ret
    /\ UNCHANGED <<recv0, data, parseVars, genVars, frozenVars, concVars, poolVars,
                   stampVars, hashVars, cmpVars, moreVars>>

ValueNext == CallValue \/ ScanOfValue

SpecValue == ValueInit /\ [][ValueNext]_vars

\* C16: for every UUID u, Value() returns the 36-character string
\* u.String(), never raw bytes, with no error, and Scan of that result
\* gives u.
C16_ValueScan ==
    /\ ret.op = "Value" =>
          /\ ret.err = "nil"
          /\ ret.out.kind = "string"
          /\ ret.out.bytes = String(val)
          /\ IsStandard(ret.out.bytes)
    /\ ret.op = "Scan" =>
          /\ data.kind = "string"
          /\ ret.err = "nil"
          /\ recv = val

\* The string Value gave for a version 1 value was scanned into a receiver
\* that held another value.
C16_Witness ==
    /\ ret.op = "Scan"
    /\ val = NamespaceDNS
    /\ recv0 = NamespaceURL
    /\ data.bytes = SeedLower
    /\ recv = NamespaceDNS

----------------------------------------------------------------------------
(* The generation functions that stamp version and variant on bytes they   *)
(* are given: NewV4, NewV4Batch, Pool.NewV4, NewV3, NewV5, NewV8           *)
(* (src/generate.go).                                                      *)

\* const V3, V5: the versions handed to hashUUID.
V3 == 3

V5 == 5

\* func NewV4() UUID once rand.Read has filled u with r:
\* u[6] = (u[6] & 0x0f) | 0x40; u[8] = (u[8] & 0x3f) | 0x80
NewV4(r) ==
    [i \in 1..UUIDSize |->
        CASE i = 7 -> BitOr(BitAnd(r[7], 15), 64)
          [] i = 9 -> BitOr(BitAnd(r[9], 63), 128)
          [] OTHER -> r[i]]

\* NewV4Batch stamping its first UUID only.
NewV4BatchFirstOnly(n, buf) ==
    [k \in 1..n |->
        [i \in 1..UUIDSize |->
            CASE i = 7 /\ k = 1 -> BitOr(BitAnd(buf[(k - 1) * 16 + 7], 15), 64)
              [] i = 9 /\ k = 1 -> BitOr(BitAnd(buf[(k - 1) * 16 + 9], 63), 128)
              [] OTHER -> buf[(k - 1) * 16 + i]]]

\* func NewV4Batch(n int) []UUID once rand.Read has filled buf: for i :=
\* range n { copy(uuids[i][:], buf[i*16:]); the two stamps }.
NewV4Batch(n, buf) ==
    [k \in 1..n |->
        [i \in 1..UUIDSize |->
            CASE i = 7 -> BitOr(BitAnd(buf[(k - 1) * 16 + 7], 15), 64)
              [] i = 9 -> BitOr(BitAnd(buf[(k - 1) * 16 + 9], 63), 128)
              [] OTHER -> buf[(k - 1) * 16 + i]]]

\* func (p *Pool) refillV4() once rand.Read has filled raw: the new v4buf.
refillV4(buf) ==
    [k \in 1..poolSize |->
        [i \in 1..UUIDSize |->
            CASE i = 7 -> BitOr(BitAnd(buf[(k - 1) * 16 + 7], 15), 64)
              [] i = 9 -> BitOr(BitAnd(buf[(k - 1) * 16 + 9], 63), 128)
              [] OTHER -> buf[(k - 1) * 16 + i]]]

\* The end of hashUUID: copy(u[:], sum[:16]);
\* u[6] = (u[6] & 0x0f) | (byte(ver) << 4); u[8] = (u[8] & 0x3f) | 0x80
hashStamp(sum, ver) ==
    [i \in 1..UUIDSize |->
        CASE i = 7 -> BitOr(BitAnd(sum[7], 15), Byte(Shl(ver, 4)))
          [] i = 9 -> BitOr(BitAnd(sum[9], 63), 128)
          [] OTHER -> sum[i]]

\* NewV8 writing 0x80 over the whole of byte 6.
NewV8ClearsLow(d) ==
    [i \in 1..UUIDSize |->
        CASE i = 7 -> 128
          [] i = 9 -> BitOr(BitAnd(d[9], 63), 128)
          [] OTHER -> d[i]]

\* func NewV8(data [16]byte) UUID: u := UUID(data);
\* u[6] = (u[6] & 0x0f) | 0x80; u[8] = (u[8] & 0x3f) | 0x80
NewV8(d) ==
    [i \in 1..UUIDSize |->
        CASE i = 7 -> BitOr(BitAnd(d[7], 15), 128)
          [] i = 9 -> BitOr(BitAnd(d[9], 63), 128)
          [] OTHER -> d[i]]

----------------------------------------------------------------------------
(* One call of a generation function on some random bytes, digest output   *)
(* or data, or a run of Pool.NewV4 calls on a new Pool.                    *)

\* The 16 bytes handed over as random bytes, digest or data: Nil and Max
\* with byte 6 or byte 8 set to any value, and two values of mixed bytes.
StampInputs ==
    {[ZeroUUID EXCEPT ![i] = b] : i \in {7, 9}, b \in Bytes}
    \cup {[[j \in 1..UUIDSize |-> 255] EXCEPT ![i] = b] : i \in {7, 9}, b \in Bytes}
    \cup {NamespaceDNS, [j \in 1..UUIDSize |-> (17 * j) % 256]}

\* The clock readings of the V7 calls: those of ClockReadings and one for
\* each value of the high four bits of the 12-bit field.
StampReadings == ClockReadings \cup {62500 * k : k \in 1..15}

\* Every reading is tried with two inputs, every input with one reading.
ReadingsFor(r) ==
    IF r \in {NamespaceDNS, [j \in 1..UUIDSize |-> 255]} THEN StampReadings ELSE {0}

\* What rand.Read(raw[:]) may deliver in refillV4.
PoolV4Fills ==
    {[i \in 1..(poolSize * 16) |-> (i - 1) % 256],
     [i \in 1..(poolSize * 16) |-> 255 - ((i - 1) % 256)]}

StampInit ==
    /\ GenInit /\ FrozenIdle /\ ConcIdle /\ NewPool /\ ParseIdle
    /\ WireIdle /\ StampIdle /\ HashIdle /\ CmpIdle /\ MoreIdle

\* What a call leaves alone beside the Pool's V4 half.
StampFrame ==
    UNCHANGED <<frozenVars, concVars, parseVars, wireVars, hashVars, cmpVars, moreVars>>

\* u := NewV4()
CallNewV4 ==
    /\ made = NoMade
    /\ \E r \in StampInputs :
          /\ raw' = r
          /\ made' = [op |-> "NewV4", n |-> 1, arg |-> <<>>, out |-> <<NewV4(r)>>]
    /\ UNCHANGED <<v4buf, v4pos, genVars, poolVars>>
    /\ StampFrame

\* uuids := NewV4Batch(n)
CallNewV4Batch ==
    /\ made = NoMade
    /\ \E n \in 0..MaxBatch :
          \E items \in [1..n -> {ZeroUUID, [j \in 1..UUIDSize |-> 255], NamespaceDNS}] :
              /\ raw' = Flatten(items)
              /\ made' = [op |-> "NewV4Batch", n |-> n, arg |-> <<>>,
                          out |-> NewV4Batch(n, Flatten(items))]
    /\ UNCHANGED <<v4buf, v4pos, genVars, poolVars>>
    /\ StampFrame

\* u := p.NewV4(): the refill when the cursor is at the end, then
\* u := p.v4buf[p.v4pos]; p.v4pos++
PoolNewV4 ==
    /\ made.op \in {"none", "Pool.NewV4"}
    /\ made.n < MaxPoolV4Calls
    /\ \E fill \in (IF v4pos >= poolSize THEN PoolV4Fills ELSE {<<>>}) :
          LET buf == IF v4pos >= poolSize THEN refillV4(fill) ELSE v4buf
              pos == IF v4pos >= poolSize THEN 0 ELSE v4pos
          IN  /\ v4buf' = buf
              /\ v4pos' = pos + 1
              /\ made' = [op |-> "Pool.NewV4", n |-> made.n + 1, arg |-> <<>>,
                          out |-> <<buf[pos + 1]>>]
    /\ UNCHANGED <<raw, genVars, poolVars>>
    /\ StampFrame

\* u := NewV3(namespace, name), whatever 16 bytes the MD5 sum is
CallNewV3 ==
    /\ made = NoMade
    /\ \E sum \in StampInputs :
          /\ raw' = sum
          /\ made' = [op |-> "NewV3", n |-> 1, arg |-> <<>>, out |-> <<hashStamp(sum, V3)>>]
    /\ UNCHANGED <<v4buf, v4pos, genVars, poolVars>>
    /\ StampFrame

\* u := NewV5(namespace, name), whatever 20 bytes the SHA-1 sum is
CallNewV5 ==
    /\ made = NoMade
    /\ \E sum \in StampInputs :
          /\ raw' = sum \o <<222, 173, 190, 239>>
          /\ made' = [op |-> "NewV5", n |-> 1, arg |-> <<>>,
                      out |-> <<hashStamp(sum \o <<222, 173, 190, 239>>, V5)>>]
    /\ UNCHANGED <<v4buf, v4pos, genVars, poolVars>>
    /\ StampFrame

\* u := NewV8(d): arg is the caller's array after the call, which the
\* function got a copy of.
CallNewV8 ==
    /\ made = NoMade
    /\ \E d \in StampInputs :
          /\ raw' = d
          /\ made' = [op |-> "NewV8", n |-> 1, arg |-> d, out |-> <<NewV8(d)>>]
    /\ UNCHANGED <<v4buf, v4pos, genVars, poolVars>>
    /\ StampFrame

\* u := g.NewV7() on a new Generator, the random tail being r[8:]
CallNewV7 ==
    /\ made = NoMade
    /\ \E r \in StampInputs : \E nano \in ReadingsFor(r) :
          LET seq == Bump(Candidate(nano), lastSeq)
          IN  /\ raw' = r
              /\ lastSeq' = seq
              /\ made' = [op |-> "NewV7", n |-> 1, arg |-> <<>>,
                          out |-> <<EncodeV7(seq, SubSeq(r, 9, 16))>>]
    /\ UNCHANGED <<v4buf, v4pos, issued, lastCall, poolVars>>
    /\ StampFrame

\* uuids := g.NewV7Batch(n) on a new Generator, every chunk being r[8:]
CallNewV7Batch ==
    /\ made = NoMade
    /\ \E r \in StampInputs : \E nano \in ReadingsFor(r) : \E n \in 0..MaxBatch :
          LET seq     == Bump(Candidate(nano), lastSeq)
              randBuf == Flatten([k \in 1..n |-> SubSeq(r, 9, 16)])
          IN  /\ raw' = r
              /\ lastSeq' = BatchLastSeq(seq, n)
              /\ made' = [op |-> "NewV7Batch", n |-> n, arg |-> <<>>,
                          out |-> [k \in 1..n |-> EncodeBatchItem(seq, k - 1, randBuf)]]
    /\ UNCHANGED <<v4buf, v4pos, issued, lastCall, poolVars>>
    /\ StampFrame

\* u := p.NewV7() on a new Pool, every chunk of the fill being r[8:]
CallPoolNewV7 ==
    /\ made = NoMade
    /\ \E r \in StampInputs : \E nano \in ReadingsFor(r) :
          /\ PoolNewV7(nano, [i \in 1..(poolSize * 8) |-> r[9 + ((i - 1) % 8)]])
          /\ raw' = r
          /\ made' = [op |-> "Pool.NewV7", n |-> 1, arg |-> <<>>,
                      out |-> <<poolTrail'[Len(poolTrail')]>>]
    /\ UNCHANGED <<v4buf, v4pos, genVars>>
    /\ StampFrame

StampNext ==
    \/ CallNewV4
    \/ CallNewV4Batch
    \/ PoolNewV4
    \/ CallNewV3
    \/ CallNewV5
    \/ CallNewV8
    \/ CallNewV7
    \/ CallNewV7Batch
    \/ CallPoolNewV7

SpecStamp == StampInit /\ [][StampNext]_vars

\* The version of each function's kind.
VersionOf(op) ==
    CASE op \in {"NewV4", "NewV4Batch", "Pool.NewV4"} -> 4
      [] op = "NewV3" -> 3
      [] op = "NewV5" -> 5
      [] op \in {"NewV7", "NewV7Batch", "Pool.NewV7"} -> 7
      [] op = "NewV8" -> 8

\* C17: every UUID a generation function returns has 10 in the top two
\* bits of byte 8 and the version of its kind in the high nibble of byte 6,
\* whatever the random bytes, the digest and the input are.
C17_VersionVariant ==
    made.op # "none" =>
        \A k \in 1..Len(made.out) :
            /\ Len(made.out[k]) = 16
            /\ made.out[k][9] \div 64 = 2
            /\ made.out[k][7] \div 16 = VersionOf(made.op)

\* Pool.NewV4 handed out the first UUID after the refill that follows the
\* first 256, stamped.
C17_Witness ==
    /\ made.op = "Pool.NewV4"
    /\ made.n = poolSize + 1
    /\ v4pos = 1
    /\ made.out[1][7] \div 16 = 4
    /\ made.out[1][9] \div 64 = 2

\* C18: NewV8(d) differs from d at most in the high nibble of byte 6, which
\* is 8, and the top two bits of byte 8, which are 10; the other 122 bits
\* are those of d, and the caller's array is as it was.
C18_NewV8Frame ==
    made.op = "NewV8" =>
        LET u == made.out[1]
        IN  /\ \A i \in (1..UUIDSize) \ {7, 9} : u[i] = raw[i]
            /\ u[7] % 16 = raw[7] % 16
            /\ u[7] \div 16 = 8
            /\ u[9] % 64 = raw[9] % 64
            /\ u[9] \div 64 = 2
            /\ made.arg = raw

\* NewV8 was given data whose byte 6 and byte 8 had other bits in those
\* places, and whose other bits are all ones.
C18_Witness ==
    /\ made.op = "NewV8"
    /\ raw[7] = 255
    /\ raw[9] = 63
    /\ made.out[1][7] = 143
    /\ made.out[1][9] = 191
    /\ made.out[1][16] = 255

----------------------------------------------------------------------------
(* NewV3 and NewV5 (src/generate.go): hashUUID run step by step by         *)
(* goroutines that share the precomputed hash states.  The local h is a    *)
(* reference: "own" for a hash of the call's own, or the name of a package *)
(* variable.                                                               *)

RECURSIVE Mix(_, _)
\* The digest stands for MD5 and SHA-1: a value that depends on every byte
\* written and on their order.
Mix(acc, b) ==
    IF b = <<>> THEN acc ELSE Mix((acc * 31 + Head(b) + 1) % 65521, Tail(b))

\* h.Sum(nil): 16 bytes for MD5, 20 for SHA-1.
Sum(h) ==
    LET acc == Mix(IF h.alg = "md5" THEN 3 ELSE 5, h.absorbed)
    IN  [i \in 1..(IF h.alg = "md5" THEN 16 ELSE 20) |-> (acc * i + (acc \div 256) + i) % 256]

\* Clone handing out the package variable itself.
CloneShares(ref) == [h |-> ref, own |-> newHash("none")]

\* c, _ := dns.Clone(); h = c: a hash of the call's own in the state of the
\* package variable.
Clone(ref) == [h |-> "own", own |-> pre[ref]]

\* The arguments NewV3 and NewV5 hand to hashUUID beside namespace and
\* name.
HashArgs(ver) ==
    IF ver = V3
    THEN [alg |-> "md5", dns |-> "md5DNS", url |-> "md5URL",
          oid |-> "md5OID", x500 |-> "md5X500"]
    ELSE [alg |-> "sha1", dns |-> "sha1DNS", url |-> "sha1URL",
          oid |-> "sha1OID", x500 |-> "sha1X500"]

\* The switch on namespace: the clone of a precomputed state, or a new
\* hash that the namespace is written to.
HashFor(namespace, ver) ==
    LET a == HashArgs(ver)
    IN  CASE namespace = NamespaceDNS -> Clone(a.dns)
          [] namespace = NamespaceURL -> Clone(a.url)
          [] namespace = NamespaceOID -> Clone(a.oid)
          [] namespace = NamespaceX500 -> Clone(a.x500)
          [] OTHER -> [h |-> "own", own |-> Write(newHash(a.alg), namespace)]

\* The namespaces and names hashed: the four standard namespaces, Nil and
\* one that differs from NamespaceDNS in its last byte; the empty name
\* and "ab".
HashNamespaces ==
    {NamespaceDNS, NamespaceURL, NamespaceOID, NamespaceX500, ZeroUUID,
     [NamespaceDNS EXCEPT ![16] = 201]}

HashNames == {<<>>, <<97, 98>>}

HashInit ==
    /\ GenInit /\ FrozenIdle /\ ConcIdle /\ NewPool /\ ParseIdle
    /\ WireIdle /\ StampIdle /\ HashIdle /\ CmpIdle /\ MoreIdle

HashFrame ==
    UNCHANGED <<genVars, frozenVars, concVars, poolVars, parseVars, wireVars,
                stampVars, cmpVars, moreVars>>

\* A goroutine that has not called yet calls NewV3 or NewV5 and gets its
\* h.
HashBegin(p, namespace, name, ver) ==
    /\ hpc[p] = "idle"
    /\ \A k \in 1..Len(hret) : hret[k].p # p
    /\ hloc' = [hloc EXCEPT ![p] =
                   [namespace |-> namespace, name |-> name, ver |-> ver,
                    h |-> HashFor(namespace, ver).h, own |-> HashFor(namespace, ver).own]]
    /\ hpc' = [hpc EXCEPT ![p] = "write"]
    /\ UNCHANGED <<pre, hret>>
    /\ HashFrame

\* h.Write([]byte(name)), on the hash h refers to
HashWrite(p) ==
    /\ hpc[p] = "write"
    /\ IF hloc[p].h = "own"
       THEN /\ hloc' = [hloc EXCEPT ![p].own = Write(@, hloc[p].name)]
            /\ pre' = pre
       ELSE /\ pre' = [pre EXCEPT ![hloc[p].h] = Write(@, hloc[p].name)]
            /\ hloc' = hloc
    /\ hpc' = [hpc EXCEPT ![p] = "sum"]
    /\ UNCHANGED hret
    /\ HashFrame

\* sum := h.Sum(nil), the stamps and the return
HashReturn(p) ==
    /\ hpc[p] = "sum"
    /\ LET h == IF hloc[p].h = "own" THEN hloc[p].own ELSE pre[hloc[p].h]
       IN  hret' = Append(hret, [p |-> p, namespace |-> hloc[p].namespace,
                                 name |-> hloc[p].name, ver |-> hloc[p].ver,
                                 u |-> hashStamp(Sum(h), hloc[p].ver)])
    /\ hpc' = [hpc EXCEPT ![p] = "idle"]
    /\ hloc' = [hloc EXCEPT ![p] = NoHashCall]
    /\ UNCHANGED pre
    /\ HashFrame

HashNext ==
    \E p \in HashGoroutines :
        \/ \E namespace \in HashNamespaces, name \in HashNames, ver \in {V3, V5} :
              HashBegin(p, namespace, name, ver)
        \/ HashWrite(p)
        \/ HashReturn(p)

SpecHash == HashInit /\ [][HashNext]_vars

\* H(namespace followed by name) for the version's algorithm, computed in
\* one piece.
DigestOf(namespace, name, ver) ==
    Sum([alg |-> IF ver = 3 THEN "md5" ELSE "sha1", absorbed |-> namespace \o name])

\* C19: whatever the interleaving of the calls, the result for (namespace,
\* name) is the first 16 bytes of H(namespace followed by name) with
\* version and variant stamped, on the precomputed path and on the generic
\* one; the precomputed states are never modified, so equal arguments give
\* equal UUIDs.
C19_HashDeterministic ==
    /\ pre = InitHashes
    /\ \A k \in 1..Len(hret) :
          LET e == hret[k]
              d == DigestOf(e.namespace, e.name, e.ver)
          IN  /\ \A i \in (1..UUIDSize) \ {7, 9} : e.u[i] = d[i]
              /\ e.u[7] = (d[7] % 16) + 16 * e.ver
              /\ e.u[9] = (d[9] % 64) + 128
    /\ \A j \in 1..Len(hret) : \A k \in 1..Len(hret) :
          (/\ hret[j].namespace = hret[k].namespace
           /\ hret[j].name = hret[k].name
           /\ hret[j].ver = hret[k].ver) => hret[j].u = hret[k].u

\* Two goroutines hashed the same name under NamespaceDNS with SHA-1 and
\* got one UUID.
C19_Witness ==
    /\ Len(hret) = 2
    /\ hret[1].namespace = NamespaceDNS
    /\ hret[2].namespace = NamespaceDNS
    /\ hret[1].name = <<97, 98>>
    /\ hret[2].name = <<97, 98>>
    /\ hret[1].ver = 5
    /\ hret[2].ver = 5
    /\ hret[1].u = hret[2].u
    /\ hret[1].p # hret[2].p

----------------------------------------------------------------------------
(* Compare on three UUIDs, pair by pair.                                   *)

\* The UUIDs compared: Nil, Max, Nil with a 1 in byte 0, 5, 6 or 15, with
\* 127 or 128 in byte 0, the least timestamp with all later bits set, and
\* a timestamp of 1 with nothing after it.
CmpValues ==
    {ZeroUUID, [i \in 1..UUIDSize |-> 255]}
    \cup {[ZeroUUID EXCEPT ![i] = 1] : i \in {1, 6, 7, 16}}
    \cup {[ZeroUUID EXCEPT ![1] = b] : b \in {127, 128}}
    \cup {[i \in 1..UUIDSize |-> IF i <= 6 THEN 0 ELSE 255]}

CmpInit ==
    /\ GenInit /\ FrozenIdle /\ ConcIdle /\ NewPool /\ ParseIdle
    /\ WireIdle /\ StampIdle /\ HashIdle /\ MoreIdle
    /\ abc \in CmpValues \X CmpValues \X CmpValues
    /\ cmpRes = <<>>

\* Compare(a, b), Compare(b, a), Compare(b, c), Compare(a, c), Compare(a, a)
CallCompare ==
    /\ cmpRes = <<>>
    /\ cmpRes' = [ab |-> Compare(abc[1], abc[2]), ba |-> Compare(abc[2], abc[1]),
                  bc |-> Compare(abc[2], abc[3]), ac |-> Compare(abc[1], abc[3]),
                  aa |-> Compare(abc[1], abc[1])]
    /\ UNCHANGED <<abc, genVars, frozenVars, concVars, poolVars, parseVars, wireVars,
                   stampVars, hashVars, moreVars>>

CmpNext == CallCompare

SpecCompare == CmpInit /\ [][CmpNext]_vars

\* The 48-bit big-endian value of bytes 0-5 of a is less than that of b:
\* the upper three bytes decide, then the lower three.
TimestampLess(a, b) ==
    LET hi(u) == (u[1] * 256 + u[2]) * 256 + u[3]
        lo(u) == (u[4] * 256 + u[5]) * 256 + u[6]
    IN  hi(a) < hi(b) \/ (hi(a) = hi(b) /\ lo(a) < lo(b))

\* C20: Compare returns only -1, 0 or +1, returns 0 exactly when a = b,
\* satisfies Compare(a, b) = -Compare(b, a), is transitive, and gives -1
\* whenever the timestamp in bytes 0-5 of a is less than that of b.
C20_CompareTotalOrder ==
    cmpRes # <<>> =>
        /\ \A f \in {"ab", "ba", "bc", "ac", "aa"} : cmpRes[f] \in {-1, 0, 1}
        /\ cmpRes.aa = 0
        /\ cmpRes.ab = 0 <=> abc[1] = abc[2]
        /\ cmpRes.ab = 0 - cmpRes.ba
        /\ (cmpRes.ab <= 0 /\ cmpRes.bc <= 0) => cmpRes.ac <= 0
        /\ (cmpRes.ab = -1 /\ cmpRes.bc <= 0) => cmpRes.ac = -1
        /\ (cmpRes.ab <= 0 /\ cmpRes.bc = -1) => cmpRes.ac = -1
        /\ TimestampLess(abc[1], abc[2]) => cmpRes.ab = -1

\* a has the lesser timestamp and every later bit set, b the greater
\* timestamp and nothing after it, c is Max: a < b < c.
C20_Witness ==
    /\ cmpRes # <<>>
    /\ abc[1] = [i \in 1..UUIDSize |-> IF i <= 6 THEN 0 ELSE 255]
    /\ abc[2] = [ZeroUUID EXCEPT ![6] = 1]
    /\ abc[3] = [i \in 1..UUIDSize |-> 255]
    /\ cmpRes.ab = -1
    /\ cmpRes.bc = -1
    /\ cmpRes.ac = -1

----------------------------------------------------------------------------
(* Several Generators and one Pool used by one caller.                     *)

\* NewGenerator handing out the package's one Generator.
NewGeneratorShared(k) == "defaultGen"

\* gen := NewGenerator(): &Generator{}, a Generator of its own for the
\* k-th call.
NewGenerator(k) == IF k = 1 THEN "gen1" ELSE "gen2"

\* The Generator each caller-side name refers to: the package functions
\* use defaultGen, gen1 := NewGenerator(), gen2 := NewGenerator().
Handle(w) ==
    CASE w = "default" -> "defaultGen"
      [] w = "first"   -> NewGenerator(1)
      [] w = "second"  -> NewGenerator(2)

Handles == {"default", "first", "second"}

\* The clock readings of the calls: the last slot of millisecond 0 and
\* millisecond 1.
IsoReadings == {999999, 1000000}

IsoInit ==
    /\ GenInit /\ FrozenIdle /\ ConcIdle /\ NewPool /\ ParseIdle
    /\ WireIdle /\ StampIdle /\ HashIdle /\ CmpIdle /\ MoreIdle

IsoFrame ==
    UNCHANGED <<genVars, frozenVars, concVars, parseVars, wireVars, stampVars,
                hashVars, cmpVars, encVars, advVars, lockVars>>

\* u := g.NewV7() for the Generator w refers to; NewV7() of the package is
\* defaultGen.NewV7().
IsoNewV7(w, nano, tail) ==
    LET g   == Handle(w)
        seq == Bump(Candidate(nano), gens[g])
    IN  /\ isoCall.k < MaxIsoCalls
        /\ gens' = [gens EXCEPT ![g] = seq]
        /\ isoCall' = [op |-> "NewV7", who |-> w, n |-> 1, nano |-> nano,
                       before |-> gens, pool |-> v7seq,
                       out |-> <<EncodeV7(seq, tail)>>, k |-> isoCall.k + 1]
        /\ UNCHANGED poolVars
        /\ IsoFrame

\* uuids := g.NewV7Batch(n) for the Generator w refers to
IsoNewV7Batch(w, n, nano, chunks) ==
    LET g       == Handle(w)
        randBuf == Flatten(chunks)
        seq     == Bump(Candidate(nano), gens[g])
    IN  /\ isoCall.k < MaxIsoCalls
        /\ gens' = [gens EXCEPT ![g] = BatchLastSeq(seq, n)]
        /\ isoCall' = [op |-> "NewV7Batch", who |-> w, n |-> n, nano |-> nano,
                       before |-> gens, pool |-> v7seq,
                       out |-> [i \in 1..n |-> EncodeBatchItem(seq, i - 1, randBuf)],
                       k |-> isoCall.k + 1]
        /\ UNCHANGED poolVars
        /\ IsoFrame

\* u := p.NewV7() on the Pool
IsoPoolNewV7(nano, fill) ==
    /\ isoCall.k < MaxIsoCalls
    /\ PoolNewV7(nano, fill)
    /\ isoCall' = [op |-> "Pool.NewV7", who |-> "pool", n |-> 1, nano |-> nano,
                   before |-> gens, pool |-> v7seq,
                   out |-> <<EncodePoolV7(PoolBump(PoolCandidate(nano), v7seq),
                               SubSeq(fill, (IF v7pos >= poolSize THEN 0 ELSE v7pos) * 8 + 1,
                                      (IF v7pos >= poolSize THEN 0 ELSE v7pos) * 8 + 8))>>,
                   k |-> isoCall.k + 1]
    /\ UNCHANGED gens
    /\ IsoFrame

IsoNext ==
    \/ \E w \in Handles, nano \in IsoReadings : IsoNewV7(w, nano, [i \in 1..8 |-> 0])
    \/ \E w \in Handles, n \in 1..MaxBatch, nano \in IsoReadings :
          IsoNewV7Batch(w, n, nano, [i \in 1..n |-> [j \in 1..8 |-> 0]])
    \/ \E nano \in IsoReadings :
          \E fill \in (IF v7pos >= poolSize THEN PoolFills ELSE {v7rand}) :
              IsoPoolNewV7(nano, fill)

SpecIso == IsoInit /\ [][IsoNext]_vars

\* C21: a NewV7 or NewV7Batch call on one Generator, and a NewV7 call on
\* the Pool, leaves the last-sequence value of every other Generator and
\* of the Pool as it was, and the value it stores follows from its own
\* instance's previous value and its clock reading alone.
C21_InstancesIsolated ==
    isoCall.op # "none" =>
        /\ \A w \in Handles \ {isoCall.who} :
              gens[Handle(w)] = isoCall.before[Handle(w)]
        /\ isoCall.who # "pool" =>
              /\ v7seq = isoCall.pool
              /\ LET c    == Candidate(isoCall.nano)
                     last == isoCall.before[Handle(isoCall.who)]
                 IN  gens[Handle(isoCall.who)] =
                        (IF c <= last THEN last + 1 ELSE c) + (isoCall.n - 1)
        /\ isoCall.who = "pool" =>
              LET c == Candidate(isoCall.nano)
              IN  v7seq = IF c <= isoCall.pool THEN isoCall.pool + 1 ELSE c

\* gen1, then gen2, then the Pool were given the same clock reading and
\* each emitted the sequence value 4095.
C21_Witness ==
    /\ isoCall.op = "Pool.NewV7"
    /\ isoCall.k = 3
    /\ isoCall.nano = 999999
    /\ SeqOf(isoCall.out[1]) = 4095
    /\ gens[Handle("first")] = 4095
    /\ gens[Handle("second")] = 4095
    /\ gens[Handle("default")] = 0

----------------------------------------------------------------------------
(* AppendText and AppendBinary (src/format.go).  A []byte is its backing   *)
(* array arr, as long as the capacity, and its length len; nil has an      *)
(* empty array.  arr0 keeps the array as it was before the call.           *)

Slice(arr, l) == [kind |-> "slice", arr |-> arr, len |-> l, arr0 |-> arr]

\* string(b): the bytes inside the length.
Contents(b) == SubSeq(b.arr, 1, b.len)

\* grow without copy(newBuf, b).
growNoCopy(b, n) ==
    LET l == b.len
    IN  IF Len(b.arr) - l >= n
        THEN [b EXCEPT !.len = l + n]
        ELSE [b EXCEPT !.arr = [i \in 1..((l + n) * 2) |-> 0], !.len = l + n]

\* func grow(b []byte, n int) []byte: b[:l+n] over the same array when the
\* capacity allows, else a zeroed array of capacity (l+n)*2 that b is
\* copied into.
grow(b, n) ==
    LET l == b.len
    IN  IF Len(b.arr) - l >= n
        THEN [b EXCEPT !.len = l + n]
        ELSE [b EXCEPT !.arr = [i \in 1..((l + n) * 2) |->
                                   IF i <= l THEN b.arr[i] ELSE 0],
                       !.len = l + n]

\* b = grow(b, 36); encodeHex(b[len(b)-36:], u); return b, nil
AppendText(u, b) ==
    LET g == grow(b, 36)
        h == encodeHex(u)
    IN  [g EXCEPT !.arr = [i \in 1..Len(g.arr) |->
                              IF i > g.len - 36 /\ i <= g.len
                              THEN h[i - (g.len - 36)] ELSE g.arr[i]]]

\* The append of Go, append(b, u[:]...): in place when the capacity
\* allows, else into a new array of the capacity newcap the runtime picks.
AppendBinary(u, b, newcap) ==
    LET l == b.len
    IN  IF Len(b.arr) - l >= UUIDSize
        THEN [b EXCEPT !.arr = [i \in 1..Len(b.arr) |->
                                   IF i > l /\ i <= l + UUIDSize
                                   THEN u[i - l] ELSE b.arr[i]],
                       !.len = l + UUIDSize]
        ELSE [b EXCEPT !.arr = [i \in 1..newcap |->
                                   CASE i <= l -> b.arr[i]
                                     [] i <= l + UUIDSize -> u[i - l]
                                     [] OTHER -> 0],
                       !.len = l + UUIDSize]

\* The slices appended to: nil, "uuid:" and "pre:" with no spare
\* capacity, "pre:" with 46, with exactly 36 and 16, and with 35 and 15
\* spare bytes, the spare bytes holding 'x'; and an empty slice of
\* capacity 36.
AppendBuffers ==
    {Slice(<<>>, 0), Slice(<<117, 117, 105, 100, 58>>, 5),
     Slice(<<112, 114, 101, 58>>, 4),
     Slice([i \in 1..36 |-> 120], 0)}
    \cup {Slice(<<112, 114, 101, 58>> \o [i \in 1..spare |-> 120], 4) :
             spare \in {15, 16, 35, 36, 46}}

\* The UUIDs appended: Nil, Max, NamespaceDNS and Nil with ab in one byte.
AppendValues ==
    {ZeroUUID, [i \in 1..UUIDSize |-> 255], NamespaceDNS}
    \cup {[ZeroUUID EXCEPT ![i] = 171] : i \in 1..UUIDSize}

AppendInit ==
    /\ GenInit /\ FrozenIdle /\ ConcIdle /\ NewPool /\ ParseIdle
    /\ StampIdle /\ HashIdle /\ CmpIdle /\ MoreIdle
    /\ recv \in AppendValues
    /\ recv0 = recv
    /\ data \in AppendBuffers
    /\ ret = NoRet

\* The caller's b after the call: the same length over the array, which
\* the call wrote to when it did not allocate.
SharedArray(b, out) ==
    IF Len(b.arr) - b.len >= out.len - b.len THEN [b EXCEPT !.arr = out.arr] ELSE b

\* buf, err := recv.AppendText(data)
CallAppendText ==
    /\ ret = NoRet
    /\ ret' = Ret("AppendText", "nil", <<>>, "", 0, AppendText(recv, data))
    /\ data' = SharedArray(data, AppendText(recv, data))
    /\ UNCHANGED <<recv, recv0, parseVars, genVars, frozenVars, concVars, poolVars,
                   stampVars, hashVars, cmpVars, moreVars>>

\* buf, err := recv.AppendBinary(data)
CallAppendBinary ==
    /\ ret = NoRet
    /\ \E newcap \in {data.len + UUIDSize, 2 * (data.len + UUIDSize)} :
          /\ ret' = Ret("AppendBinary", "nil", <<>>, "", 0, AppendBinary(recv, data, newcap))
          /\ data' = SharedArray(data, AppendBinary(recv, data, newcap))
    /\ UNCHANGED <<recv, recv0, parseVars, genVars, frozenVars, concVars, poolVars,
                   stampVars, hashVars, cmpVars, moreVars>>

AppendNext == CallAppendText \/ CallAppendBinary

SpecAppend == AppendInit /\ [][AppendNext]_vars

\* C22: AppendText(b) returns the original bytes of b followed by the 36
\* characters of u.String(), whether b had the spare capacity or not, and
\* AppendBinary(b) the original bytes of b followed by the 16 bytes of u;
\* neither returns an error, and the caller's b still holds its bytes.
C22_AppendKeepsPrefix ==
    LET b0 == SubSeq(data.arr0, 1, data.len)
    IN  /\ ret.op = "AppendText" =>
              /\ ret.err = "nil"
              /\ Contents(ret.out) = b0 \o String(recv)
              /\ Parse(SubSeq(Contents(ret.out), data.len + 1, data.len + 36)).u = recv
              /\ Contents(data) = b0
        /\ ret.op = "AppendBinary" =>
              /\ ret.err = "nil"
              /\ Contents(ret.out) = b0 \o recv
              /\ Contents(data) = b0

\* AppendText on "pre:" with 35 spare bytes, one too few: the result is in
\* a new array of capacity 80 and begins with "pre:".
C22_Witness ==
    /\ ret.op = "AppendText"
    /\ data.len = 4
    /\ Len(data.arr0) = 39
    /\ Len(ret.out.arr) = 80
    /\ ret.out.len = 40
    /\ SubSeq(ret.out.arr, 1, 4) = <<112, 114, 101, 58>>
    /\ recv = NamespaceDNS

----------------------------------------------------------------------------
(* The encoding of a sequence value over the whole range of 60 bits.  An   *)
(* int64 in 0 .. 2^60-1 is held in two halves of 30 bits, hi and lo,       *)
(* standing for hi * 2^30 + lo.                                            *)

Half == 2 ^ 30

Wide(hi, lo) == [hi |-> hi, lo |-> lo]

\* x >> n for 0 <= n < 60
WShr(x, n) ==
    IF n >= 30 THEN Wide(0, x.hi \div (2 ^ (n - 30)))
    ELSE Wide(x.hi \div (2 ^ n),
              (x.hi % (2 ^ n)) * (2 ^ (30 - n)) + x.lo \div (2 ^ n))

\* x & m for 0 <= m < 2^30
WAnd(x, m) == Wide(0, AndNat(x.lo, m))

\* x | y
WOr(x, y) == Wide(OrNat(x.hi, y.hi), OrNat(x.lo, y.lo))

\* byte(x)
WByte(x) == x.lo % 256

\* int64(b) << n for a byte b and 0 <= n <= 40
WShlByte(b, n) ==
    IF n >= 30 THEN Wide(b * (2 ^ (n - 30)), 0)
    ELSE Wide(b \div (2 ^ (30 - n)), (b % (2 ^ (30 - n))) * (2 ^ n))

\* x < y
WLess(x, y) == x.hi < y.hi \/ (x.hi = y.hi /\ x.lo < y.lo)

\* The encoding with u[0] = byte(ms >> 32), the shift of u[1].
EncodeV7WideSlip(seq, tail) ==
    LET ms    == WShr(seq, 12)
        seq12 == WAnd(seq, 4095)
    IN  [i \in 1..UUIDSize |->
            CASE i = 1 -> WByte(WShr(ms, 32))
              [] i = 2 -> WByte(WShr(ms, 32))
              [] i = 3 -> WByte(WShr(ms, 24))
              [] i = 4 -> WByte(WShr(ms, 16))
              [] i = 5 -> WByte(WShr(ms, 8))
              [] i = 6 -> WByte(ms)
              [] i = 7 -> BitOr(112, BitAnd(WByte(WShr(seq12, 8)), 15))
              [] i = 8 -> WByte(seq12)
              [] i = 9 -> BitOr(BitAnd(tail[1], 63), 128)
              [] OTHER -> tail[i - 8]]

\* Generator.NewV7 after the critical section, on an int64 seq of up to 60
\* bits: ms = seq >> 12, seq12 := seq & 0xFFF, bytes 0-7 written, the
\* variant laid over byte 8.
EncodeV7Wide(seq, tail) ==
    LET ms    == WShr(seq, 12)
        seq12 == WAnd(seq, 4095)
    IN  [i \in 1..UUIDSize |->
            CASE i = 1 -> WByte(WShr(ms, 40))
              [] i = 2 -> WByte(WShr(ms, 32))
              [] i = 3 -> WByte(WShr(ms, 24))
              [] i = 4 -> WByte(WShr(ms, 16))
              [] i = 5 -> WByte(WShr(ms, 8))
              [] i = 6 -> WByte(ms)
              [] i = 7 -> BitOr(112, BitAnd(WByte(WShr(seq12, 8)), 15))
              [] i = 8 -> WByte(seq12)
              [] i = 9 -> BitOr(BitAnd(tail[1], 63), 128)
              [] OTHER -> tail[i - 8]]

\* func (u UUID) Time(): ms := int64(u[0])<<40 | int64(u[1])<<32 |
\* int64(u[2])<<24 | int64(u[3])<<16 | int64(u[4])<<8 | int64(u[5]); the
\* milliseconds since the epoch of the time.Time returned.
Time(u) ==
    WOr(WOr(WOr(WShlByte(u[1], 40), WShlByte(u[2], 32)),
            WOr(WShlByte(u[3], 24), WShlByte(u[4], 16))),
        WOr(WShlByte(u[5], 8), WShlByte(u[6], 0)))

\* The halves the sequence values are put together from: all zeros, all
\* ones, single bits at the edges of the bytes of the layout, and mixed
\* patterns.
HiHalves == {0, 1, 63, 64, 2 ^ 14, 2 ^ 22, 715827882, Half - 1}

LoHalves == {0, 1, 4095, 4096, 2 ^ 20 - 1, 2 ^ 28, 357913941, Half - 1}

WideSeqs == {Wide(h, l) : h \in HiHalves, l \in LoHalves}

EncodeInit ==
    /\ GenInit /\ FrozenIdle /\ ConcIdle /\ NewPool /\ ParseIdle
    /\ WireIdle /\ StampIdle /\ HashIdle /\ CmpIdle /\ IsoIdle /\ AdvIdle /\ LockIdle
    /\ seqs \in WideSeqs \X WideSeqs
    /\ enc = <<>>

\* Two calls reach the encoding with the sequence values seqs[1] and
\* seqs[2]; each result is read back with Time.
EncodeBoth(tail) ==
    /\ enc = <<>>
    /\ LET ua == EncodeV7Wide(seqs[1], tail)
           ub == EncodeV7Wide(seqs[2], tail)
       IN  enc' = [a |-> ua, b |-> ub, ta |-> Time(ua), tb |-> Time(ub)]
    /\ UNCHANGED <<seqs, genVars, frozenVars, concVars, poolVars, parseVars, wireVars,
                   stampVars, hashVars, cmpVars, isoVars, advVars, lockVars>>

EncodeNext == \E tail \in RandTails : EncodeBoth(tail)

SpecEncode == EncodeInit /\ [][EncodeNext]_vars

\* The sequence value read off bytes 0-7: the 48 bits of bytes 0-5
\* followed by the low nibble of byte 6 and byte 7, in two halves.
SeqRead(u) ==
    Wide(((u[1] * 256 + u[2]) * 256 + u[3]) * 64 + u[4] \div 4,
         (((u[4] % 4) * 256 + u[5]) * 256 + u[6]) * 4096 + (u[7] % 16) * 256 + u[8])

\* s >> 12 in two halves.
MsRead(s) == Wide(s.hi \div 4096, (s.hi % 4096) * (2 ^ 18) + s.lo \div 4096)

\* C24: for a sequence value s in 0 .. 2^60-1, bytes 0-5 read big-endian
\* are s >> 12, the low nibble of byte 6 followed by byte 7 is s & 0xFFF,
\* byte 6 carries the version 7 in its high nibble, Time() is s >> 12
\* milliseconds, and the order of bytes 0-7 is the numeric order of s.
C24_FieldsExact ==
    enc # <<>> =>
        /\ SeqRead(enc.a) = seqs[1]
        /\ SeqRead(enc.b) = seqs[2]
        /\ (enc.a[7] % 16) * 256 + enc.a[8] = seqs[1].lo % 4096
        /\ enc.a[7] \div 16 = 7
        /\ enc.b[7] \div 16 = 7
        /\ enc.ta = MsRead(seqs[1])
        /\ enc.tb = MsRead(seqs[2])
        /\ Compare(Head8(enc.a), Head8(enc.b)) =
              (IF WLess(seqs[1], seqs[2]) THEN -1
               ELSE IF WLess(seqs[2], seqs[1]) THEN 1 ELSE 0)

\* The greatest sequence value, 2^60 - 1, beside one whose timestamp has
\* the lowest bit of byte 0 alone: bytes 0-5 of the first are all ones.
C24_Witness ==
    /\ enc # <<>>
    /\ seqs[1] = Wide(Half - 1, Half - 1)
    /\ seqs[2] = Wide(2 ^ 22, 4095)
    /\ SubSeq(enc.a, 1, 8) = <<255, 255, 255, 255, 255, 255, 127, 255>>
    /\ SubSeq(enc.b, 1, 8) = <<1, 0, 0, 0, 0, 0, 127, 255>>
    /\ Compare(Head8(enc.b), Head8(enc.a)) = -1

----------------------------------------------------------------------------
(* C23.  NewV7 calls made in a row on one Generator while the clock does   *)
(* not advance, and the times read back from their results.                *)

----------------------------------------------------------------------------
(* A new Generator, a NewV7 call, a sleep and a second NewV7 call          *)
(* (TestNewV7TimestampAdvances).                                           *)

AdvInit ==
    /\ GenInit /\ ConcIdle /\ NewPool /\ ParseIdle /\ ExtIdle
    /\ clock \in ClockReadings
    /\ count = 0
    /\ trail = <<>>

\* a := gen.NewV7() on the new Generator
AdvFirst(tail) ==
    LET seq == Bump(Candidate(clock), lastSeq)
        u   == EncodeV7(seq, tail)
    IN  /\ issued = <<>>
        /\ lastSeq' = seq
        /\ issued' = <<u>>
        /\ lastCall' = [op |-> "NewV7", n |-> 1, nano |-> clock,
                        before |-> lastSeq, out |-> <<u>>]
        /\ UNCHANGED <<frozenVars, concVars, poolVars, parseVars, extVars>>

\* time.Sleep(d * time.Millisecond); b := gen.NewV7(): the clock advances
\* by d whole milliseconds and is read by the second call.
AdvSleepNewV7(d, tail) ==
    LET now == clock + d * nanoPerMilli
        seq == Bump(Candidate(now), lastSeq)
        u   == EncodeV7(seq, tail)
    IN  /\ Len(issued) = 1
        /\ clock' = now
        /\ slept' = d
        /\ lastSeq' = seq
        /\ issued' = Append(issued, u)
        /\ lastCall' = [op |-> "NewV7", n |-> 1, nano |-> now,
                        before |-> lastSeq, out |-> <<u>>]
        /\ UNCHANGED <<count, trail, concVars, poolVars, parseVars, wireVars,
                       stampVars, hashVars, cmpVars, isoVars, encVars, lockVars>>

AdvNext ==
    \/ \E tail \in RandTails : AdvFirst(tail)
    \/ \E d \in (0..MaxSleepMs) \cup {100}, tail \in RandTails : AdvSleepNewV7(d, tail)

SpecAdvance == AdvInit /\ [][AdvNext]_vars

\* The candidate of a reading at or after the epoch, by arithmetic: the
\* milliseconds times 4096 plus the 4096ths of the millisecond begun.
CandidateOf(nano) ==
    (nano \div nanoPerMilli) * 4096 + ((nano % nanoPerMilli) * 256) \div 62500

\* The sequence value a call emitted is never below the candidate of its
\* own clock reading and is the candidate exactly when the candidate
\* exceeds last_sequence.
EmittedFromCandidate ==
    lastCall.op = "NewV7" =>
        LET s == SeqOf(lastCall.out[1])
        IN  IF lastCall.nano >= 0
            THEN /\ s >= CandidateOf(lastCall.nano)
                 /\ s = CandidateOf(lastCall.nano) <=>
                       CandidateOf(lastCall.nano) > lastCall.before
            ELSE s = lastCall.before + 1 /\ s > 0

\* C29 as stated: the above, and the Time() values of a first call on a
\* new Generator and of a call made after the clock advanced by d whole
\* milliseconds differ by at least d milliseconds.
C29_Original ==
    /\ EmittedFromCandidate
    /\ Len(issued) = 2 => MsOf(issued[2]) - MsOf(issued[1]) >= slept

\* C29 as amended: the difference is at least d milliseconds when the
\* first call read the clock at or after the Unix epoch.
C29_NeverBehindClock ==
    /\ EmittedFromCandidate
    /\ (Len(issued) = 2 /\ lastCall.nano - slept * nanoPerMilli >= 0) =>
           MsOf(issued[2]) - MsOf(issued[1]) >= slept

\* The first call read the last slot of millisecond 0, the caller slept
\* 100 milliseconds and the second call emitted its candidate: the times
\* differ by 100 milliseconds.
C29_Witness ==
    /\ Len(issued) = 2
    /\ slept = 100
    /\ lastCall.nano = 100999999
    /\ lastCall.before = 4095
    /\ SeqOf(issued[2]) = 100 * 4096 + 4095
    /\ MsOf(issued[2]) - MsOf(issued[1]) = 100

----------------------------------------------------------------------------
(* One Generator and one Pool called by two goroutines at the same time:   *)
(* Generator.NewV7, Generator.NewV7Batch, Pool.NewV4 and Pool.NewV7        *)
(* statement by statement (src/generate.go lines 158-209 and 255-335).     *)

\* The clock readings of the calls: the epoch, whose candidate is 0, and
\* millisecond 1.
LockReadings == {0, 1000000}

\* The sizes the callers ask NewV7Batch for: none, one and several.
LockBatchSizes == {0, 1, 2}

\* The Pool's Lock without exclusion: it returns at once.
PoolLockNeverWaits(c) == TRUE

\* p.mu.Lock() returns only when no goroutine holds the Pool's mutex.
PoolMutexFree(c) == pmu = 0

\* An Unlock that leaves the mutex as it was.
UnlockKeeps(m, c) == m

\* mu.Unlock(): the mutex m held by c is free afterwards.
Unlock(m, c) == 0

\* The refill test with > in place of >=.
poolExhaustedLate(pos) == pos > poolSize

\* if p.v4pos >= poolSize, if p.v7pos >= poolSize
poolExhausted(pos) == pos >= poolSize

\* What rand.Read delivers when the Pool refills beside the Generator: one
\* of PoolV4Fills and one of PoolFills.
LockV4Fill == [i \in 1..(poolSize * 16) |-> (i - 1) % 256]

LockV7Fill == [i \in 1..(poolSize * 8) |-> (i - 1) % 256]

\* v4buf after refillV4 when rand.Read delivered LockV4Fill.
LockV4Buf == refillV4(LockV4Fill)

\* A Pool after 255 calls of each kind, made one after another with the
\* clock at the last slot of millisecond 0: one entry and one chunk of the
\* first fill are left.
PoolNearEnd ==
    /\ v7rand = LockV7Fill
    /\ v7pos = poolSize - 1
    /\ v7seq = 4095 + (poolSize - 2)
    /\ poolCalls = 0
    /\ poolTrail = <<>>
    /\ raw = <<>>
    /\ made = NoMade
    /\ v4buf = LockV4Buf
    /\ v4pos = poolSize - 1
    /\ pmu = 0
    /\ lpc = [c \in LockCallers |-> "idle"]
    /\ lloc = [c \in LockCallers |-> NoLocals]
    /\ log = [NoLog EXCEPT !.fills = [v4 |-> 1, v7 |-> 1]]

\* A new Generator beside a new Pool or a Pool that has been used.
LockInit ==
    /\ GenInit /\ FrozenIdle /\ ConcIdle /\ ParseIdle
    /\ WireIdle /\ HashIdle /\ CmpIdle /\ IsoIdle /\ EncIdle /\ AdvIdle
    /\ \/ NewPool /\ StampIdle /\ LockIdle
       \/ PoolNearEnd

LockFrame ==
    UNCHANGED <<issued, lastCall, frozenVars, pc, loc, started, stored, returned,
                poolCalls, poolTrail, parseVars, wireVars, raw, made, hashVars,
                cmpVars, isoVars, encVars, advVars>>

\* The shared state of instance inst is read or written by c.
Touch(c, inst) == [c |-> c, inst |-> inst, holder |-> IF inst = "gen" THEN mu ELSE pmu]

\* Generator.NewV7, lines 256-264: var u UUID; rand.Read(u[8:]);
\* now := time.Now(); ...; seq := ms<<12 | frac
G7Start(c, nano, tail) ==
    /\ lpc[c] = "idle"
    /\ lloc' = [lloc EXCEPT ![c] =
                   [NoLocals EXCEPT !.op = "NewV7", !.n = 1, !.nano = nano,
                                    !.cand = Candidate(nano), !.seq = Candidate(nano),
                                    !.tail = tail]]
    /\ lpc' = [lpc EXCEPT ![c] = "gLock"]
    /\ log' = [log EXCEPT !.reads = Append(@, [c |-> c, op |-> "NewV7",
                                               gmu |-> mu, pmu |-> pmu])]
    /\ UNCHANGED <<lastSeq, mu, pmu, v7rand, v7pos, v7seq, v4buf, v4pos>>
    /\ LockFrame

\* Generator.NewV7Batch, lines 297-307: uuids := make([]UUID, n);
\* randBuf := make([]byte, n*8); rand.Read(randBuf); now := time.Now(); ...;
\* seq := ms<<12 | frac
GBStart(c, n, nano, chunks) ==
    /\ lpc[c] = "idle"
    /\ lloc' = [lloc EXCEPT ![c] =
                   [NoLocals EXCEPT !.op = "NewV7Batch", !.n = n, !.nano = nano,
                                    !.cand = Candidate(nano), !.seq = Candidate(nano),
                                    !.tail = Flatten(chunks)]]
    /\ lpc' = [lpc EXCEPT ![c] = "gLock"]
    /\ log' = [log EXCEPT !.reads = Append(@, [c |-> c, op |-> "NewV7Batch",
                                               gmu |-> mu, pmu |-> pmu])]
    /\ UNCHANGED <<lastSeq, mu, pmu, v7rand, v7pos, v7seq, v4buf, v4pos>>
    /\ LockFrame

\* Lines 266 and 309: g.mu.Lock()
GLock(c) ==
    /\ lpc[c] = "gLock"
    /\ MutexFree(c)
    /\ mu' = c
    /\ lpc' = [lpc EXCEPT ![c] = "gBump"]
    /\ log' = [log EXCEPT !.entries = Append(@, [c |-> c, inst |-> "gen"])]
    /\ UNCHANGED <<lastSeq, pmu, lloc, v7rand, v7pos, v7seq, v4buf, v4pos>>
    /\ LockFrame

\* Lines 267-269 and 310-312: if seq <= g.lastSeq { seq = g.lastSeq + 1 };
\* in NewV7Batch the loop of lines 314-330 follows, which writes uuids only.
GBump(c) ==
    /\ lpc[c] = "gBump"
    /\ LET seq == Bump(lloc[c].seq, lastSeq)
       IN  lloc' = [lloc EXCEPT ![c].seq = seq, ![c].prev = lastSeq,
                                ![c].out = IF lloc[c].op = "NewV7Batch"
                                           THEN [i \in 1..lloc[c].n |->
                                                    EncodeBatchItem(seq, i - 1, lloc[c].tail)]
                                           ELSE <<>>]
    /\ lpc' = [lpc EXCEPT ![c] = "gStore"]
    /\ log' = [log EXCEPT !.touch = Touch(c, "gen")]
    /\ UNCHANGED <<lastSeq, mu, pmu, v7rand, v7pos, v7seq, v4buf, v4pos>>
    /\ LockFrame

\* Line 270: g.lastSeq = seq; line 331: g.lastSeq = seq + int64(n-1)
GStore(c) ==
    /\ lpc[c] = "gStore"
    /\ LET last == IF lloc[c].op = "NewV7" THEN lloc[c].seq
                   ELSE BatchLastSeq(lloc[c].seq, lloc[c].n)
       IN  /\ lastSeq' = last
           /\ log' = [log EXCEPT !.touch = Touch(c, "gen"),
                                 !.stores = Append(@, [c |-> c, inst |-> "gen",
                                                       op |-> lloc[c].op, n |-> lloc[c].n,
                                                       cand |-> lloc[c].cand,
                                                       prev |-> lloc[c].prev, val |-> last])]
    /\ lpc' = [lpc EXCEPT ![c] = "gUnlock"]
    /\ UNCHANGED <<mu, pmu, lloc, v7rand, v7pos, v7seq, v4buf, v4pos>>
    /\ LockFrame

\* Lines 271-289: g.mu.Unlock(), the bytes written from seq and return u;
\* lines 332-334: g.mu.Unlock(); return uuids.  After the Unlock the call
\* works on its locals only.
GUnlock(c) ==
    /\ lpc[c] = "gUnlock"
    /\ mu' = Unlock(mu, c)
    /\ LET out == IF lloc[c].op = "NewV7" THEN <<EncodeV7(lloc[c].seq, lloc[c].tail)>>
                  ELSE lloc[c].out
       IN  /\ lloc' = [lloc EXCEPT ![c].out = out]
           /\ log' = [log EXCEPT !.rets = Append(@, [c |-> c, op |-> lloc[c].op,
                                                     n |-> lloc[c].n, out |-> out])]
    /\ lpc' = [lpc EXCEPT ![c] = "done"]
    /\ UNCHANGED <<lastSeq, pmu, v7rand, v7pos, v7seq, v4buf, v4pos>>
    /\ LockFrame

\* A call of Pool.NewV4 or Pool.NewV7 begins: its first statement is the
\* Lock.
PStart(c, op) ==
    /\ lpc[c] = "idle"
    /\ lloc' = [lloc EXCEPT ![c] = [NoLocals EXCEPT !.op = op, !.n = 1]]
    /\ lpc' = [lpc EXCEPT ![c] = "pLock"]
    /\ UNCHANGED <<lastSeq, mu, pmu, log, v7rand, v7pos, v7seq, v4buf, v4pos>>
    /\ LockFrame

\* Lines 159 and 174: p.mu.Lock()
PLock(c) ==
    /\ lpc[c] = "pLock"
    /\ PoolMutexFree(c)
    /\ pmu' = c
    /\ lpc' = [lpc EXCEPT ![c] = "pCheck"]
    /\ log' = [log EXCEPT !.entries = Append(@, [c |-> c, inst |-> "pool"])]
    /\ UNCHANGED <<lastSeq, mu, lloc, v7rand, v7pos, v7seq, v4buf, v4pos>>
    /\ LockFrame

\* Lines 160-162: if p.v4pos >= poolSize { p.refillV4() }, with buf the
\* entries refillV4 leaves in v4buf
P4Check(c, buf) ==
    /\ lpc[c] = "pCheck"
    /\ lloc[c].op = "Pool.NewV4"
    /\ IF poolExhausted(v4pos)
       THEN /\ v4buf' = buf
            /\ v4pos' = 0
       ELSE UNCHANGED <<v4buf, v4pos>>
    /\ log' = [log EXCEPT !.touch = Touch(c, "pool"),
                          !.checks = Append(@, [c |-> c, kind |-> "v4", pos |-> v4pos,
                                                refilled |-> poolExhausted(v4pos)]),
                          !.fills.v4 = IF poolExhausted(v4pos) THEN @ + 1 ELSE @]
    /\ lpc' = [lpc EXCEPT ![c] = "pTake"]
    /\ UNCHANGED <<lastSeq, mu, pmu, lloc, v7rand, v7pos, v7seq>>
    /\ LockFrame

\* Lines 175-177: if p.v7pos >= poolSize { p.refillV7() }
P7Check(c, fill) ==
    /\ lpc[c] = "pCheck"
    /\ lloc[c].op = "Pool.NewV7"
    /\ IF poolExhausted(v7pos)
       THEN /\ v7rand' = fill
            /\ v7pos' = 0
       ELSE UNCHANGED <<v7rand, v7pos>>
    /\ log' = [log EXCEPT !.touch = Touch(c, "pool"),
                          !.checks = Append(@, [c |-> c, kind |-> "v7", pos |-> v7pos,
                                                refilled |-> poolExhausted(v7pos)]),
                          !.fills.v7 = IF poolExhausted(v7pos) THEN @ + 1 ELSE @]
    /\ lpc' = [lpc EXCEPT ![c] = "pTake"]
    /\ UNCHANGED <<lastSeq, mu, pmu, lloc, v7seq, v4buf, v4pos>>
    /\ LockFrame

\* Lines 163-164: u := p.v4buf[p.v4pos]; p.v4pos++.  An index at or past
\* the end of the array panics: the call goes no further.
P4Take(c) ==
    /\ lpc[c] = "pTake"
    /\ lloc[c].op = "Pool.NewV4"
    /\ log' = [log EXCEPT !.touch = Touch(c, "pool"),
                          !.hands = Append(@, [c |-> c, kind |-> "v4",
                                               fill |-> log.fills.v4, idx |-> v4pos])]
    /\ IF v4pos < poolSize
       THEN /\ lloc' = [lloc EXCEPT ![c].u = v4buf[v4pos + 1]]
            /\ v4pos' = v4pos + 1
            /\ lpc' = [lpc EXCEPT ![c] = "pUnlock"]
       ELSE /\ lpc' = [lpc EXCEPT ![c] = "panic"]
            /\ UNCHANGED <<lloc, v4pos>>
    /\ UNCHANGED <<lastSeq, mu, pmu, v7rand, v7pos, v7seq, v4buf>>
    /\ LockFrame

\* Lines 179-182: var u UUID; off := p.v7pos * 8;
\* copy(u[8:], p.v7rand[off:off+8]); p.v7pos++.  A slice past the end of
\* the array panics.
P7Take(c) ==
    /\ lpc[c] = "pTake"
    /\ lloc[c].op = "Pool.NewV7"
    /\ log' = [log EXCEPT !.touch = Touch(c, "pool"),
                          !.hands = Append(@, [c |-> c, kind |-> "v7",
                                               fill |-> log.fills.v7, idx |-> v7pos])]
    /\ IF v7pos < poolSize
       THEN /\ lloc' = [lloc EXCEPT ![c].tail = SubSeq(v7rand, v7pos * 8 + 1, v7pos * 8 + 8)]
            /\ v7pos' = v7pos + 1
            /\ lpc' = [lpc EXCEPT ![c] = "pClock"]
       ELSE /\ lpc' = [lpc EXCEPT ![c] = "panic"]
            /\ UNCHANGED <<lloc, v7pos>>
    /\ UNCHANGED <<lastSeq, mu, pmu, v7rand, v7seq, v4buf, v4pos>>
    /\ LockFrame

\* Lines 184-188: now := time.Now(); nano := now.UnixNano(); ...;
\* seq := ms<<12 | frac
P7Clock(c, nano) ==
    /\ lpc[c] = "pClock"
    /\ lloc' = [lloc EXCEPT ![c].nano = nano, ![c].cand = PoolCandidate(nano),
                            ![c].seq = PoolCandidate(nano)]
    /\ log' = [log EXCEPT !.reads = Append(@, [c |-> c, op |-> "Pool.NewV7",
                                               gmu |-> mu, pmu |-> pmu])]
    /\ lpc' = [lpc EXCEPT ![c] = "pBump"]
    /\ UNCHANGED <<lastSeq, mu, pmu, v7rand, v7pos, v7seq, v4buf, v4pos>>
    /\ LockFrame

\* Lines 190-192: if seq <= p.v7seq { seq = p.v7seq + 1 }
P7Bump(c) ==
    /\ lpc[c] = "pBump"
    /\ lloc' = [lloc EXCEPT ![c].seq = PoolBump(lloc[c].seq, v7seq), ![c].prev = v7seq]
    /\ log' = [log EXCEPT !.touch = Touch(c, "pool")]
    /\ lpc' = [lpc EXCEPT ![c] = "pStore"]
    /\ UNCHANGED <<lastSeq, mu, pmu, v7rand, v7pos, v7seq, v4buf, v4pos>>
    /\ LockFrame

\* Line 193: p.v7seq = seq
P7Store(c) ==
    /\ lpc[c] = "pStore"
    /\ v7seq' = lloc[c].seq
    /\ log' = [log EXCEPT !.touch = Touch(c, "pool"),
                          !.stores = Append(@, [c |-> c, inst |-> "pool",
                                                op |-> lloc[c].op, n |-> 1,
                                                cand |-> lloc[c].cand,
                                                prev |-> lloc[c].prev, val |-> lloc[c].seq])]
    /\ lpc' = [lpc EXCEPT ![c] = "pUnlock"]
    /\ UNCHANGED <<lastSeq, mu, pmu, lloc, v7rand, v7pos, v4buf, v4pos>>
    /\ LockFrame

\* Lines 165-166: p.mu.Unlock(); return u; lines 194-208: p.mu.Unlock(),
\* the bytes written from seq and return u.
PUnlock(c) ==
    /\ lpc[c] = "pUnlock"
    /\ pmu' = Unlock(pmu, c)
    /\ LET out == IF lloc[c].op = "Pool.NewV4" THEN <<lloc[c].u>>
                  ELSE <<EncodePoolV7(lloc[c].seq, lloc[c].tail)>>
       IN  /\ lloc' = [lloc EXCEPT ![c].out = out]
           /\ log' = [log EXCEPT !.rets = Append(@, [c |-> c, op |-> lloc[c].op,
                                                     n |-> 1, out |-> out])]
    /\ lpc' = [lpc EXCEPT ![c] = "done"]
    /\ UNCHANGED <<lastSeq, mu, v7rand, v7pos, v7seq, v4buf, v4pos>>
    /\ LockFrame

\* The steps of caller c once its call has begun.
LockStep(c) ==
    \/ GLock(c) \/ GBump(c) \/ GStore(c) \/ GUnlock(c)
    \/ PLock(c)
    \/ P4Check(c, LockV4Buf)
    \/ P7Check(c, LockV7Fill)
    \/ P4Take(c) \/ P7Take(c)
    \/ \E nano \in LockReadings : P7Clock(c, nano)
    \/ P7Bump(c) \/ P7Store(c) \/ PUnlock(c)

\* A caller begins one of the four operations.
LockCall(c) ==
    \/ \E nano \in LockReadings : G7Start(c, nano, [i \in 1..8 |-> 0])
    \/ \E n \in LockBatchSizes, nano \in LockReadings :
          GBStart(c, n, nano, [i \in 1..n |-> [j \in 1..8 |-> 0]])
    \/ \E op \in {"Pool.NewV4", "Pool.NewV7"} : PStart(c, op)

LockNext == \E c \in LockCallers : LockCall(c) \/ LockStep(c)

SpecLocks == LockInit /\ [][LockNext]_vars

----------------------------------------------------------------------------
(* What the claims say of the calls under the locks.                       *)

\* Caller c is between the Lock and the Unlock of the instance.
InCritical(c, inst) ==
    IF inst = "gen" THEN lpc[c] \in {"gBump", "gStore", "gUnlock"}
    ELSE lpc[c] \in {"pCheck", "pTake", "pClock", "pBump", "pStore", "pUnlock", "panic"}

\* At most one call per instance is between Lock and Unlock, and it is
\* the one the mutex names.
OneInside ==
    /\ \A c, d \in LockCallers :
          \A inst \in {"gen", "pool"} :
              (InCritical(c, inst) /\ InCritical(d, inst)) => c = d
    /\ \A c \in LockCallers :
          /\ InCritical(c, "gen") => mu = c
          /\ InCritical(c, "pool") => pmu = c

\* lastSeq, v7seq, the cursors and the buffers were last read or written
\* by the call holding the instance's lock.
TouchedByHolder == log.touch.holder = log.touch.c

\* Store number j of an instance was computed from what the store before
\* it on that instance left: nothing was stored in between.
StoresChained ==
    \A i, j \in 1..Len(log.stores) :
        (/\ i < j
         /\ log.stores[i].inst = log.stores[j].inst
         /\ \A k \in (i + 1)..(j - 1) : log.stores[k].inst # log.stores[i].inst)
        => log.stores[j].prev = log.stores[i].val

\* C25 as stated: at most one call per instance is between Lock and
\* Unlock, the shared state is touched only by the holder of the lock,
\* and no two calls store a sequence value computed from the same previous
\* last-sequence.
C25_Original ==
    /\ OneInside
    /\ TouchedByHolder
    /\ \A i, j \in 1..Len(log.stores) :
          (i # j /\ log.stores[i].inst = log.stores[j].inst)
          => log.stores[i].prev # log.stores[j].prev

\* C25 as amended: two calls that each emit a UUID never store a sequence
\* value computed from the same previous last-sequence; NewV7Batch(0)
\* stores the value below its first sequence value, which is the value it
\* read when the clock is not ahead, and the next call computes from that.
\* Every store is computed from what the store before it left.
C25_OneCallInside ==
    /\ OneInside
    /\ TouchedByHolder
    /\ StoresChained
    /\ \A i, j \in 1..Len(log.stores) :
          (/\ i # j
           /\ log.stores[i].inst = log.stores[j].inst
           /\ log.stores[i].n >= 1
           /\ log.stores[j].n >= 1)
          => log.stores[i].prev # log.stores[j].prev

\* Caller 2 passed the Generator's critical section first; caller 1 holds
\* the lock now and has stored the value after the one caller 2 stored.
C25_Witness ==
    /\ lpc[1] = "gUnlock"
    /\ lpc[2] = "done"
    /\ mu = 1
    /\ Len(log.stores) = 2
    /\ log.stores[1].c = 2
    /\ log.stores[2].c = 1
    /\ log.stores[2].prev = log.stores[1].val
    /\ log.stores[2].val = log.stores[1].val + 1
    /\ log.touch = [c |-> 1, inst |-> "gen", holder |-> 1]

\* The callers of a sequence of log entries, in order.
CallersOf(entries) == [i \in 1..Len(entries) |-> entries[i].c]

\* s is a leading part of t.
IsPrefix(s, t) == Len(s) <= Len(t) /\ s = SubSeq(t, 1, Len(s))

GenReads == SelectSeq(log.reads, LAMBDA r : r.op \in {"NewV7", "NewV7Batch"})
PoolReads == SelectSeq(log.reads, LAMBDA r : r.op = "Pool.NewV7")
GenEntries == SelectSeq(log.entries, LAMBDA e : e.inst = "gen")
PoolV7Entries ==
    SelectSeq(log.entries,
              LAMBDA e : e.inst = "pool" /\ lloc[e.c].op = "Pool.NewV7")

\* Pool.NewV7 reads the clock while it holds the Pool's lock, and the
\* Pool's readings are taken in the order of entry.
PoolReadsInside ==
    /\ \A i \in 1..Len(PoolReads) : PoolReads[i].pmu = PoolReads[i].c
    /\ IsPrefix(CallersOf(PoolReads), CallersOf(PoolV7Entries))

C26_PoolWitness ==
    /\ CallersOf(PoolReads) = <<2, 1>>
    /\ CallersOf(PoolV7Entries) = <<2, 1>>
    /\ PoolReads[2].pmu = 1

\* What holds of the Pool's cursors and buffers in every state.
PoolWithinBounds ==
    /\ pmu = 0 => (v4pos \in 0..poolSize /\ v7pos \in 0..poolSize)
    /\ \A c \in LockCallers : lpc[c] # "panic"
    /\ \A i \in 1..Len(log.hands) : log.hands[i].idx \in 0..(poolSize - 1)
    /\ \A i \in 1..Len(log.checks) :
          log.checks[i].refilled <=> (log.checks[i].pos = poolSize)
    /\ \A i, j \in 1..Len(log.hands) :
          (/\ i # j
           /\ log.hands[i].kind = log.hands[j].kind
           /\ log.hands[i].fill = log.hands[j].fill)
          => log.hands[i].idx # log.hands[j].idx

\* A step of a Pool.NewV4 call leaves the random chunks, the cursor and
\* the sequence of Pool.NewV7 alone, and a step of a Pool.NewV7 call leaves
\* the pre-stamped entries and the cursor of Pool.NewV4 alone.
PoolKindsApart ==
    \A c \in LockCallers :
        lpc'[c] # lpc[c]
        => /\ lloc'[c].op = "Pool.NewV4" => UNCHANGED <<v7rand, v7pos, v7seq>>
           /\ lloc'[c].op = "Pool.NewV7" => UNCHANGED <<v4buf, v4pos>>

\* C27: for every interleaving of Pool.NewV4 and Pool.NewV7 calls the
\* cursors are within 0..256 whenever the lock is free, no buffer is
\* indexed at or beyond its end, a refill happens exactly when the cursor
\* of that kind is 256, each entry or chunk of a refill is handed to at
\* most one call, and a call of one kind leaves the other kind's cursor,
\* buffer and sequence unchanged.
C27_PoolCursors == [](PoolWithinBounds) /\ [][PoolKindsApart]_vars

\* Two concurrent calls of one kind around the end of a buffer: one got
\* the last entry of the first refill, the other found the cursor at 256,
\* refilled and got the first entry of the second refill.
C27_Witness ==
    /\ Len(log.hands) = 2
    /\ log.hands[1].c # log.hands[2].c
    /\ log.hands[1].kind = log.hands[2].kind
    /\ log.hands[1].fill = 1 /\ log.hands[1].idx = poolSize - 1
    /\ log.hands[2].fill = 2 /\ log.hands[2].idx = 0
    /\ log.checks[2].pos = poolSize /\ log.checks[2].refilled
    /\ pmu = 0

\* The calls on the Generator that have returned, and what was stored.
GenRets == SelectSeq(log.rets, LAMBDA r : r.op \in {"NewV7", "NewV7Batch"})
GenStores == SelectSeq(log.stores, LAMBDA st : st.inst = "gen")

\* The store a call made before it returned.
StoreOf(c) == CHOOSE st \in {GenStores[i] : i \in 1..Len(GenStores)} : st.c = c

\* first = max(clock candidate, lastSeq + 1), from what the call read.
FirstOf(st) == IF st.cand >= st.prev + 1 THEN st.cand ELSE st.prev + 1

\* The sequence values a returned call carries.
EmittedBy(r) == {SeqOf(r.out[i]) : i \in 1..Len(r.out)}

\* C28: NewV7Batch(n) returns exactly n UUIDs carrying first, first+1, ...,
\* first+n-1 with first = max(clock candidate, lastSeq+1); no other call
\* on the Generator obtains a value of that range; lastSeq never decreases,
\* is at least every sequence value emitted so far and equals the last
\* emitted value when n >= 1; NewV7Batch(0) returns an empty result
\* without lowering lastSeq.
C28_BatchRange ==
    /\ \A i \in 1..Len(GenRets) :
          LET r == GenRets[i]
              st == StoreOf(r.c)
          IN  /\ Len(r.out) = r.n
              /\ \A k \in 1..Len(r.out) : SeqOf(r.out[k]) = FirstOf(st) + (k - 1)
              /\ r.n >= 1 => st.val = FirstOf(st) + (r.n - 1)
              /\ r.n = 0 => (r.out = <<>> /\ st.val >= st.prev)
              /\ \A v \in EmittedBy(r) : v <= lastSeq
    /\ \A i, j \in 1..Len(GenRets) :
          i # j => EmittedBy(GenRets[i]) \cap EmittedBy(GenRets[j]) = {}
    /\ \A i \in 1..Len(GenStores) : GenStores[i].val >= GenStores[i].prev
    /\ \A i, j \in 1..Len(GenStores) :
          i < j => GenStores[i].val <= GenStores[j].val
    /\ GenStores # <<>> => lastSeq = GenStores[Len(GenStores)].val

\* A batch of two and a NewV7 on one Generator in the same millisecond:
\* the batch holds two consecutive values and the single call, which
\* entered after it, the value after the batch's last.
C28_Witness ==
    /\ Len(GenRets) = 2
    /\ \E i, j \in 1..2 :
          /\ GenRets[i].op = "NewV7Batch" /\ GenRets[i].n = 2
          /\ GenRets[j].op = "NewV7"
          /\ SeqOf(GenRets[i].out[2]) = SeqOf(GenRets[i].out[1]) + 1
          /\ SeqOf(GenRets[j].out[1]) = SeqOf(GenRets[i].out[2]) + 1
          /\ lastSeq = SeqOf(GenRets[j].out[1])

\* NewV7Batch(0) after a call that emitted: nothing is returned and
\* lastSeq stays where the earlier call left it.
C28_ZeroWitness ==
    /\ Len(GenStores) = 2
    /\ GenStores[1].n >= 1
    /\ GenStores[2].op = "NewV7Batch" /\ GenStores[2].n = 0
    /\ GenStores[2].val = GenStores[1].val
    /\ lastSeq = GenStores[1].val

----------------------------------------------------------------------------
(* Termination of the calls.  The scheduler runs every goroutine that can  *)
(* take a step, and a goroutine at Lock can take its step whenever the     *)
(* mutex is free.                                                          *)

SpecLocksFair ==
    /\ LockInit
    /\ [][LockNext]_vars
    /\ \A c \in LockCallers : WF_vars(LockStep(c))

\* A call of c has begun and has not returned.
InProgress(c) == lpc[c] \notin {"idle", "done"}

\* No mutex is held by a call that has returned or not begun, none is
\* held when no call is in progress, and no call stands at a Lock of a
\* mutex it holds.
LocksReleased ==
    /\ \A c \in LockCallers : ~InProgress(c) => (mu # c /\ pmu # c)
    /\ (\A c \in LockCallers : ~InProgress(c)) => (mu = 0 /\ pmu = 0)
    /\ \A c \in LockCallers :
          /\ lpc[c] = "gLock" => mu # c
          /\ lpc[c] = "pLock" => pmu # c

\* C30: under weak fairness every call to Generator.NewV7, NewV7Batch,
\* Pool.NewV4 and Pool.NewV7 eventually returns; the lock is released on
\* every path, no call acquires a lock it already holds, and the lock is
\* free whenever no call is in progress.
C30_EveryCallReturns ==
    /\ [](LocksReleased)
    /\ \A c \in LockCallers : InProgress(c) ~> (lpc[c] = "done")

\* Caller 2 waits at the Lock of the Pool while caller 1 is inside.
C30_Witness ==
    /\ lpc[1] = "pTake"
    /\ lpc[2] = "pLock"
    /\ pmu = 1

\* Both calls have returned after one waited for the other.
C30_Returned ==
    /\ \A c \in LockCallers : lpc[c] = "done"
    /\ Len(log.rets) = 2
    /\ mu = 0 /\ pmu = 0

====
